---- MODULE Spec2Model ----
(***************************************************************************)
(* A model of the DJ abstract syntax tree (dj/sql/parsing/ast.py): the     *)
(* nodes of one compilation live in a heap, every node is a dataclass      *)
(* instance with its fields in declaration order, and the operations of    *)
(* Node and of its variants are the actions.  The rewrite of a query       *)
(* (dj/construction/build.py) works on the same heap; build holds what a   *)
(* compilation keeps besides the nodes.                                    *)
(***************************************************************************)
EXTENDS Integers, Sequences, FiniteSets, TLC

VARIABLES heap, parents, nops, last, build

vars == <<heap, parents, nops, last, build>>

(***************************************************************************)
(* Bounds of the model.                                                    *)
(***************************************************************************)
MaxNodes == 3
MaxQueryNodes == 3
MaxList == 1
MaxArgs == 1
MaxOps == 2
MaxStrLen == 3
MaxNumbers == 1

(***************************************************************************)
(* Python values.  A value is a record [k, v]: k is the Python type for a  *)
(* primitive ("int", "float", "str", "bool", "none"), the enum class for   *)
(* an enum member, "list" for a list and "node" for a reference into the   *)
(* heap.  A float is held in units of 1/Scale, fine enough for every       *)
(* literal of MaxStrLen characters.                                        *)
(***************************************************************************)
Scale == 10 ^ MaxStrLen

VNone == [k |-> "none", v |-> 0]
VInt(i) == [k |-> "int", v |-> i]
VFloat(t) == [k |-> "float", v |-> t]
VBool(b) == [k |-> "bool", v |-> b]
VStr(s) == [k |-> "str", v |-> s]
VEnum(e, m) == [k |-> e, v |-> m]
VNode(i) == [k |-> "node", v |-> i]
VList(l) == [k |-> "list", v |-> l]

EnumClasses == {"UnaryOpKind", "BinaryOpKind", "JoinKind"}

IsNodeVal(x) == x.k = "node"
IsNoneVal(x) == x.k = "none"

\* the primitives of Node.__eq__
Primitives == {"int", "float", "str", "bool", "none"}

\* type(x): the class of the node for a reference, else the value's own type
PyType(h, x) == IF x.k = "node" THEN h[x.v].cls ELSE x.k

\* the numeric value, in units of 1/Scale, of an int, a float or a bool
NumVal(x) ==
    IF x.k = "int" THEN Scale * x.v
    ELSE IF x.k = "float" THEN x.v
    ELSE IF x.v THEN Scale ELSE 0

IsNum(x) == x.k \in {"int", "float", "bool"}

\* s == o for a primitive s: numbers compare by value across int, float and
\* bool, strings with strings, None with None; anything else is unequal
PyEq(s, o) ==
    IF IsNum(s) /\ IsNum(o) THEN NumVal(s) = NumVal(o)
    ELSE IF s.k = "str" /\ o.k = "str" THEN s.v = o.v
    ELSE s.k = "none" /\ o.k = "none"

(***************************************************************************)
(* The variants and their dataclass fields, in declaration order (the      *)
(* fields of the base dataclasses first).                                  *)
(***************************************************************************)
FieldNames(cls) ==
    CASE cls = "Name" -> <<"name", "quote_style">>
      [] cls = "Namespace" -> <<"names">>
      [] cls = "UnaryOp" -> <<"op", "expr">>
      [] cls = "BinaryOp" -> <<"left", "op", "right">>
      [] cls = "Between" -> <<"expr", "low", "high">>
      [] cls = "Case" -> <<"conditions", "else_result", "operand", "results">>
      [] cls = "Function" -> <<"name", "_namespace", "args">>
      [] cls = "IsNull" -> <<"expr">>
      [] cls \in {"Number", "String", "Boolean"} -> <<"value">>
      [] cls = "Alias" -> <<"name", "_namespace", "child">>
      [] cls = "Column" -> <<"name", "_namespace", "_table">>
      [] cls = "Wildcard" -> <<"_table">>
      [] cls = "Table" -> <<"name", "_namespace", "_columns">>
      [] cls = "Join" -> <<"kind", "table", "on">>
      [] cls = "From" -> <<"table", "joins">>
      [] cls = "Select" -> <<"distinct", "from_", "group_by", "having",
                             "projection", "where", "limit">>
      [] cls = "Query" -> <<"select", "ctes">>

\* self_field.name.startswith("_")
Obfuscated(name) == name \in {"_namespace", "_table", "_columns"}

\* the classes a class derives from, itself included (isinstance)
Bases(cls) ==
    CASE cls \in {"Name", "Namespace", "Join", "From", "Select"} -> {cls, "Node"}
      [] cls \in {"UnaryOp", "BinaryOp", "Between", "IsNull"} ->
             {cls, "Operation", "Expression", "Node"}
      [] cls \in {"Case", "Wildcard", "Query"} -> {cls, "Expression", "Node"}
      [] cls = "Function" ->
             {cls, "Named", "Operation", "Expression", "Node"}
      [] cls \in {"Number", "String", "Boolean"} ->
             {cls, "Value", "Expression", "Node"}
      [] cls \in {"Alias", "Column", "Table"} ->
             {cls, "Named", "Expression", "Node"}

IsInstance(h, n, T) == T \in Bases(h[n].cls)

Nodes(h) == 1..Len(h)

\* the index of a field in the declaration order (0 when the class has none)
FieldIndex(cls, name) ==
    LET names == FieldNames(cls)
        hits == {i \in 1..Len(names) : names[i] = name}
    IN IF hits = {} THEN 0 ELSE CHOOSE i \in hits : TRUE

HasField(h, n, name) == FieldIndex(h[n].cls, name) # 0

Field(h, n, name) == h[n].fld[FieldIndex(h[n].cls, name)]

SetField(h, n, name, x) ==
    [h EXCEPT ![n].fld[FieldIndex(h[n].cls, name)] = x]

(***************************************************************************)
(* flatten and the traversal of Node.                                      *)
(***************************************************************************)
RECURSIVE flatten(_)
flatten(x) ==
    IF x.k # "list" THEN <<x>>
    ELSE IF Len(x.v) = 0 THEN <<>>
    ELSE flatten(Head(x.v)) \o flatten(VList(Tail(x.v)))

\* the field values from the last declared field to the first
RECURSIVE ChildGeneratorReversed(_, _, _, _)
ChildGeneratorReversed(names, vals, obfuscated, i) ==
    IF i > Len(names) THEN <<>>
    ELSE ChildGeneratorReversed(names, vals, obfuscated, i + 1)
         \o (IF obfuscated \/ ~Obfuscated(names[i]) THEN <<vals[i]>> ELSE <<>>)

\* make_child_generator: the field values in declaration order, the
\* obfuscated ones only on request
RECURSIVE ChildGenerator(_, _, _, _)
ChildGenerator(names, vals, obfuscated, i) ==
    IF i > Len(names) THEN <<>>
    ELSE (IF obfuscated \/ ~Obfuscated(names[i]) THEN <<vals[i]>> ELSE <<>>)
         \o ChildGenerator(names, vals, obfuscated, i + 1)

fields(h, n, flat, nodes_only, obfuscated, nones) ==
    LET gen == ChildGenerator(FieldNames(h[n].cls), h[n].fld, obfuscated, 1)
        f1 == IF flat THEN flatten(VList(gen)) ELSE gen
        f2 == IF nodes_only THEN SelectSeq(f1, IsNodeVal) ELSE f1
    IN IF ~nones THEN SelectSeq(f2, LAMBDA x : ~IsNoneVal(x)) ELSE f2

\* children had it yielded the obfuscated fields as well
childrenObfuscated(h, n) ==
    LET c == fields(h, n, TRUE, TRUE, TRUE, FALSE)
    IN [i \in 1..Len(c) |-> c[i].v]

\* the ids of the nodes one step below n
children(h, n) ==
    LET c == fields(h, n, TRUE, TRUE, FALSE, FALSE)
    IN [i \in 1..Len(c) |-> c[i].v]

\* a predicate handed to filter: always true, always false or isinstance
Call(func, h, n) ==
    IF func.kind = "isinstance" THEN IsInstance(h, n, func.T)
    ELSE func.T = "True"

PredTrue == [kind |-> "const", T |-> "True"]
PredFalse == [kind |-> "const", T |-> "False"]
PredIsInstance(T) == [kind |-> "isinstance", T |-> T]

\* filter had it left the subtree of a node that func rejects
RECURSIVE filterPrune(_, _, _)
RECURSIVE FilterPruneChain(_, _, _)
filterPrune(h, n, func) ==
    IF Call(func, h, n)
    THEN <<n>> \o FilterPruneChain(h, children(h, n), func)
    ELSE <<>>
FilterPruneChain(h, cs, func) ==
    IF cs = <<>> THEN <<>>
    ELSE filterPrune(h, Head(cs), func) \o FilterPruneChain(h, Tail(cs), func)

RECURSIVE filter(_, _, _)
RECURSIVE FilterChain(_, _, _)
filter(h, n, func) ==
    (IF Call(func, h, n) THEN <<n>> ELSE <<>>)
    \o FilterChain(h, children(h, n), func)
FilterChain(h, cs, func) ==
    IF cs = <<>> THEN <<>>
    ELSE filter(h, Head(cs), func) \o FilterChain(h, Tail(cs), func)

NodeFlatten(h, n) == filter(h, n, PredTrue)

find_all(h, n, T) == filter(h, n, PredIsInstance(T))

\* apply had it invoked func on a node after its children
RECURSIVE applyPostOrder(_, _)
RECURSIVE ApplyPostOrderEach(_, _)
applyPostOrder(h, n) == ApplyPostOrderEach(h, children(h, n)) \o <<n>>
ApplyPostOrderEach(h, cs) ==
    IF cs = <<>> THEN <<>>
    ELSE applyPostOrder(h, Head(cs)) \o ApplyPostOrderEach(h, Tail(cs))

\* apply: the nodes func is invoked on, in the order of the invocations
RECURSIVE apply(_, _)
RECURSIVE ApplyEach(_, _)
apply(h, n) == <<n>> \o ApplyEach(h, children(h, n))
ApplyEach(h, cs) ==
    IF cs = <<>> THEN <<>>
    ELSE apply(h, Head(cs)) \o ApplyEach(h, Tail(cs))

(***************************************************************************)
(* Shallow equality, diff and compare.                                     *)
(***************************************************************************)
Min(a, b) == IF a < b THEN a ELSE b
Max(a, b) == IF a > b THEN a ELSE b

\* Node.__eq__ had it compared the obfuscated fields as well
NodeEqObfuscated(h, a, b) ==
    /\ h[a].cls = h[b].cls
    /\ LET fs == fields(h, a, FALSE, FALSE, TRUE, TRUE)
           fo == fields(h, b, FALSE, FALSE, TRUE, TRUE)
       IN \A i \in 1..Min(Len(fs), Len(fo)) :
              IF PyType(h, fs[i]) \in Primitives
              THEN PyEq(fs[i], fo[i])
              ELSE PyType(h, fs[i]) = PyType(h, fo[i])

\* Node.__eq__ on two nodes
NodeEq(h, a, b) ==
    /\ h[a].cls = h[b].cls
    /\ LET fs == fields(h, a, FALSE, FALSE, FALSE, TRUE)
           fo == fields(h, b, FALSE, FALSE, FALSE, TRUE)
       IN \A i \in 1..Min(Len(fs), Len(fo)) :
              IF PyType(h, fs[i]) \in Primitives
              THEN PyEq(fs[i], fo[i])
              ELSE PyType(h, fs[i]) = PyType(h, fo[i])

\* self != other where either side may be the None that zip_longest fills in
NodeNe(h, x, y) ==
    IF IsNodeVal(x) /\ IsNodeVal(y) THEN ~NodeEq(h, x.v, y.v) ELSE TRUE

\* zip in the place of zip_longest: the pairs stop with the shorter side
zip_shortest(s, t) ==
    [i \in 1..Min(Len(s), Len(t)) |-> <<VNode(s[i]), VNode(t[i])>>]

zip_longest(s, t) ==
    [i \in 1..Max(Len(s), Len(t)) |->
        <<IF i <= Len(s) THEN VNode(s[i]) ELSE VNone,
          IF i <= Len(t) THEN VNode(t[i]) ELSE VNone>>]

RECURSIVE DiffRec(_, _, _)
RECURSIVE DiffEach(_, _)
DiffRec(h, x, y) ==
    IF NodeNe(h, x, y) THEN << <<x, y>> >>
    ELSE DiffEach(h, zip_longest(children(h, x.v), children(h, y.v)))
DiffEach(h, ps) ==
    IF ps = <<>> THEN <<>>
    ELSE DiffRec(h, Head(ps)[1], Head(ps)[2]) \o DiffEach(h, Tail(ps))

diff(h, a, b) == DiffRec(h, VNode(a), VNode(b))

compare(h, a, b) == diff(h, a, b) = <<>>

(***************************************************************************)
(* Hashes.  A hash is modelled by the key it is computed from, written as  *)
(* a string: two hashes are equal exactly when the keys are.               *)
(***************************************************************************)
HashTuple(a, b) == "(" \o a \o "," \o b \o ")"
HashTuple3(a, b, c) == "(" \o a \o "," \o b \o "," \o c \o ")"
HashClass(cls) == "class:" \o cls
HashId(n) == "id:" \o ToString(n)

RECURSIVE Hash(_, _)
RECURSIVE HashVal(_, _)
\* hash(x) of a field value
HashVal(h, x) ==
    IF x.k = "node" THEN Hash(h, x.v)
    ELSE IF x.k = "str" THEN "str:" \o x.v
    ELSE IF IsNum(x) THEN "num:" \o ToString(NumVal(x))
    ELSE IF x.k = "none" THEN "None"
    ELSE IF x.k \in EnumClasses THEN "str:" \o x.v
    ELSE "unhashable"

\* Node.__hash__ of each variant
Hash(h, n) ==
    LET cls == h[n].cls
        F(name) == Field(h, n, name)
    IN CASE cls = "Name" -> "str:" \o F("name").v \o F("quote_style").v
         [] cls \in {"Namespace", "Function", "IsNull"} -> HashClass(cls)
         [] cls \in {"UnaryOp", "BinaryOp"} ->
                HashTuple(HashClass(cls), HashVal(h, F("op")))
         [] cls = "Between" ->
                HashTuple3(HashClass(cls), HashVal(h, F("low")),
                           HashVal(h, F("high")))
         [] cls \in {"Case", "From", "Select", "Query"} -> HashId(n)
         [] cls \in {"Number", "String", "Boolean"} ->
                HashTuple(HashClass(cls), HashVal(h, F("value")))
         [] cls \in {"Alias", "Column", "Table"} ->
                HashTuple(HashClass(cls), HashVal(h, F("name")))
         [] cls = "Wildcard" -> "id:class:Wildcard"
         [] cls = "Join" -> HashTuple(HashClass(cls), HashVal(h, F("kind")))

(***************************************************************************)
(* The parent set of a node is a Python set of nodes: an element is found  *)
(* by its hash and then by identity or __eq__.                             *)
(***************************************************************************)
SameKey(h, stored, probe) ==
    /\ Hash(h, stored) = Hash(h, probe)
    /\ (stored = probe \/ NodeEq(h, stored, probe))

SetContains(h, S, p) == \E q \in S : SameKey(h, q, p)

SetAdd(h, S, p) == IF SetContains(h, S, p) THEN S ELSE S \cup {p}

RECURSIVE SetUpdate(_, _, _)
SetUpdate(h, S, ps) ==
    IF ps = <<>> THEN S ELSE SetUpdate(h, SetAdd(h, S, Head(ps)), Tail(ps))

SetDifference(h, S, O) == {q \in S : ~\E p \in O : SameKey(h, q, p)}

(***************************************************************************)
(* The operations of Node on the parent sets.                              *)
(***************************************************************************)
\* add_parents had it assigned the set instead of updating it
add_parentsAssign(h, par, n, ps) == [par EXCEPT ![n] = SetUpdate(h, {}, ps)]

\* add_parents: self.parents.update(parents)
add_parents(h, par, n, ps) == [par EXCEPT ![n] = SetUpdate(h, @, ps)]

\* remove_parents: self._parents -= set(parents)
remove_parents(h, par, n, ps) ==
    [par EXCEPT ![n] = SetDifference(h, @, SetUpdate(h, {}, ps))]

\* clear_parents: self._parents = set()
clear_parents(par, n) == [par EXCEPT ![n] = {}]

\* add_self_as_parent: child.add_parents(self) for each child in turn
RECURSIVE AddParentEach(_, _, _, _)
AddParentEach(h, par, cs, n) ==
    IF cs = <<>> THEN par
    ELSE AddParentEach(h, add_parents(h, par, Head(cs), <<n>>), Tail(cs), n)

add_self_as_parent(h, par, n) == AddParentEach(h, par, children(h, n), n)

\* compile_parents: apply add_self_as_parent to every node below self
RECURSIVE CompileEach(_, _, _)
CompileEach(h, par, ns) ==
    IF ns = <<>> THEN par
    ELSE CompileEach(h, add_self_as_parent(h, par, Head(ns)), Tail(ns))

compile_parents(h, par, n) == CompileEach(h, par, apply(h, n))

(***************************************************************************)
(* The back-references of Named, Column, Wildcard and Table.               *)
(***************************************************************************)
\* add_table without the test for a table already bound
add_tableOverwrite(h, c, t) == SetField(h, c, "_table", t)

\* Column.add_table and Wildcard.add_table
add_table(h, c, t) ==
    IF IsNoneVal(Field(h, c, "_table")) THEN SetField(h, c, "_table", t) ELSE h

\* Named.add_namespace
add_namespace(h, n, ns) ==
    IF IsNoneVal(Field(h, n, "_namespace"))
    THEN SetField(h, n, "_namespace", ns) ELSE h

\* Table.add_columns: append each column and bind it to the table
RECURSIVE add_columns(_, _, _)
add_columns(h, t, cols) ==
    IF cols = <<>> THEN h
    ELSE LET c == Head(cols)
             h1 == SetField(h, t, "_columns",
                            VList(Append(Field(h, t, "_columns").v, VNode(c))))
         IN add_columns(add_table(h1, c, VNode(t)), t, Tail(cols))

\* alias_or_name had it looked for an Alias among any number of parents
alias_or_nameAnyParent(h, par, n) ==
    IF \E p \in par[n] : IsInstance(h, p, "Alias")
    THEN Field(h, CHOOSE p \in par[n] : IsInstance(h, p, "Alias"), "name")
    ELSE Field(h, n, "name")

\* Named.alias_or_name
alias_or_name(h, par, n) ==
    IF Cardinality(par[n]) = 1
    THEN LET parent == CHOOSE p \in par[n] : TRUE
         IN IF IsInstance(h, parent, "Alias")
            THEN Field(h, parent, "name") ELSE Field(h, n, "name")
    ELSE Field(h, n, "name")

(***************************************************************************)
(* Inputs of the constructors.                                             *)
(***************************************************************************)
Strs == {"a", "b"}

SeqsUpTo(S, k) == UNION {[1..m -> S] : m \in 0..k}

NodeVals(h, T) == {VNode(i) : i \in {j \in Nodes(h) : IsInstance(h, j, T)}}
NodeIds(h, T) == {j \in Nodes(h) : IsInstance(h, j, T)}

Opt(S) == S \cup {VNone}
Lists(S) == {VList(l) : l \in SeqsUpTo(S, MaxList)}

NameArgs(h) == {VStr(s) : s \in Strs} \cup NodeVals(h, "Name")
TableArgs(h) == NodeVals(h, "Table") \cup NodeVals(h, "Alias")

Idle == [op |-> "idle", args |-> <<>>, ret |-> VNone]

\* the dataclass __init__ followed by Node.__post_init__
New(cls, fld) ==
    /\ last = Idle
    /\ heap' = Append(heap, [cls |-> cls, fld |-> fld])
    /\ parents' = Append(parents, {})
    /\ last' = Idle
    /\ UNCHANGED <<nops, build>>

NewName ==
    \E s \in Strs : New("Name", <<VStr(s), VStr("")>>)

NewNamespace ==
    \E l \in Lists(NodeVals(heap, "Name")) : New("Namespace", <<l>>)

NewColumn ==
    \E nm \in NameArgs(heap) : New("Column", <<nm, VNone, VNone>>)

NewTable ==
    \E nm \in NameArgs(heap) : New("Table", <<nm, VNone, VList(<<>>)>>)

NewWildcard == New("Wildcard", <<VNone>>)

NewAlias ==
    \E nm \in NameArgs(heap), c \in NodeVals(heap, "Node") :
        New("Alias", <<nm, VNone, c>>)

NewBinaryOp ==
    \E l \in NodeVals(heap, "Expression"),
       op \in {VEnum("BinaryOpKind", "Eq"), VEnum("BinaryOpKind", "And")},
       r \in NodeVals(heap, "Expression") :
        New("BinaryOp", <<l, op, r>>)

NewFrom ==
    \E t \in TableArgs(heap), js \in Lists(NodeVals(heap, "Join")) :
        New("From", <<t, js>>)

(***************************************************************************)
(* Number.__post_init__.  A string handed to Number is a sequence of       *)
(* characters; int() and float() read it as Python does for the characters *)
(* of Chars (digits, one sign in front, one decimal point).                *)
(***************************************************************************)
Chars == {"5", "2", ".", "-"}
VChars(cs) == [k |-> "str", v |-> cs]

IsDigit(c) == c \in {"0", "1", "2", "3", "4", "5", "6", "7", "8", "9"}
DigitVal(c) ==
    CASE c = "0" -> 0 [] c = "1" -> 1 [] c = "2" -> 2 [] c = "3" -> 3
      [] c = "4" -> 4 [] c = "5" -> 5 [] c = "6" -> 6 [] c = "7" -> 7
      [] c = "8" -> 8 [] c = "9" -> 9

RECURSIVE DigitsVal(_)
DigitsVal(cs) ==
    IF cs = <<>> THEN 0
    ELSE 10 * DigitsVal(SubSeq(cs, 1, Len(cs) - 1)) + DigitVal(cs[Len(cs)])

Unsigned(cs) == IF Len(cs) > 0 /\ cs[1] = "-" THEN Tail(cs) ELSE cs
Sign(cs) == IF Len(cs) > 0 /\ cs[1] = "-" THEN -1 ELSE 1

NoValue == [exc |-> "ValueError", value |-> VNone]
Value(x) == [exc |-> "none", value |-> x]

\* int(value)
IntOf(x) ==
    IF x.k = "bool" THEN Value(VInt(IF x.v THEN 1 ELSE 0))
    ELSE IF x.k = "none" THEN [exc |-> "TypeError", value |-> VNone]
    ELSE LET body == Unsigned(x.v)
         IN IF Len(body) > 0 /\ \A i \in 1..Len(body) : IsDigit(body[i])
            THEN Value(VInt(Sign(x.v) * DigitsVal(body)))
            ELSE NoValue

\* float(value)
FloatOf(x) ==
    LET body == Unsigned(x.v)
        dots == {i \in 1..Len(body) : body[i] = "."}
        dot == IF dots = {} THEN Len(body) + 1 ELSE CHOOSE i \in dots : TRUE
        whole == SubSeq(body, 1, dot - 1)
        frac == SubSeq(body, dot + 1, Len(body))
    IN IF /\ Cardinality(dots) <= 1
          /\ Len(whole) + Len(frac) > 0
          /\ \A i \in 1..Len(whole) : IsDigit(whole[i])
          /\ \A i \in 1..Len(frac) : IsDigit(frac[i])
       THEN Value(VFloat(Sign(x.v) * (Scale * DigitsVal(whole)
                         + (Scale \div (10 ^ Len(frac))) * DigitsVal(frac))))
       ELSE NoValue

\* Number.__post_init__ had it tried float() before int()
NumberPostInitFloatFirst(raw) ==
    IF raw.k \in {"float", "int"} THEN Value(raw)
    ELSE IF raw.k = "str" /\ FloatOf(raw).exc = "none" THEN FloatOf(raw)
    ELSE IntOf(raw)

\* Number.__post_init__: the value the node holds, or the exception raised
NumberPostInit(raw) ==
    IF raw.k \in {"float", "int"} THEN Value(raw)
    ELSE IF IntOf(raw).exc = "ValueError" THEN FloatOf(raw)
    ELSE IntOf(raw)

NumberArgs == {VInt(1), VFloat(Scale)}

NewNumber ==
    \E raw \in NumberArgs :
        /\ NumberPostInit(raw).exc = "none"
        /\ New("Number", <<NumberPostInit(raw).value>>)

NewString == New("String", <<VStr("a")>>)

NewBoolean == \E b \in BOOLEAN : New("Boolean", <<VBool(b)>>)

NewUnaryOp ==
    \E op \in {VEnum("UnaryOpKind", "Minus"), VEnum("UnaryOpKind", "Not")},
       e \in NodeVals(heap, "Expression") :
        New("UnaryOp", <<op, e>>)

NewBetween ==
    \E e \in NodeVals(heap, "Expression"),
       low \in NodeVals(heap, "Expression"),
       high \in NodeVals(heap, "Expression") :
        New("Between", <<e, low, high>>)

NewCase ==
    \E conds \in Lists(NodeVals(heap, "Expression")),
       els \in Opt(NodeVals(heap, "Expression")),
       res \in Lists(NodeVals(heap, "Expression")) :
        New("Case", <<conds, els, VNone, res>>)

NewFunction ==
    \E nm \in NameArgs(heap), args \in Lists(NodeVals(heap, "Expression")) :
        New("Function", <<nm, VNone, args>>)

NewIsNull ==
    \E e \in NodeVals(heap, "Expression") : New("IsNull", <<e>>)

NewJoin ==
    \E kind \in {VEnum("JoinKind", "Inner"), VEnum("JoinKind", "LeftOuter")},
       t \in TableArgs(heap),
       on \in NodeVals(heap, "Expression") :
        New("Join", <<kind, t, on>>)

NewSelect ==
    \E distinct \in BOOLEAN,
       from_ \in NodeVals(heap, "From"),
       group_by \in Lists(NodeVals(heap, "Expression")),
       projection \in Lists(NodeVals(heap, "Expression")),
       where \in Opt(NodeVals(heap, "Expression")) :
        New("Select", <<VBool(distinct), from_, group_by, VNone, projection,
                        where, VNone>>)

NewQuery ==
    \E sel \in NodeVals(heap, "Select"), ctes \in Lists(NodeVals(heap, "Alias")) :
        New("Query", <<sel, ctes>>)

(***************************************************************************)
(* The mutating calls, each on any node and with any arguments.            *)
(***************************************************************************)
Mutate(h, par) ==
    /\ nops < MaxOps
    /\ nops' = nops + 1
    /\ heap' = h
    /\ parents' = par
    /\ last' = Idle
    /\ UNCHANGED build

ParentArgs == SeqsUpTo(Nodes(heap), MaxArgs) \ {<<>>}

AddParents ==
    \E n \in Nodes(heap), ps \in ParentArgs :
        Mutate(heap, add_parents(heap, parents, n, ps))

RemoveParents ==
    \E n \in Nodes(heap), ps \in ParentArgs :
        Mutate(heap, remove_parents(heap, parents, n, ps))

ClearParents ==
    \E n \in Nodes(heap) : Mutate(heap, clear_parents(parents, n))

AddSelfAsParent ==
    \E n \in Nodes(heap) : Mutate(heap, add_self_as_parent(heap, parents, n))

CompileParents ==
    \E n \in Nodes(heap) : Mutate(heap, compile_parents(heap, parents, n))

AddTable ==
    \E c \in NodeIds(heap, "Column") \cup NodeIds(heap, "Wildcard"),
       t \in TableArgs(heap) :
        Mutate(add_table(heap, c, t), parents)

AddNamespace ==
    \E n \in NodeIds(heap, "Named"), ns \in Opt(NodeVals(heap, "Namespace")) :
        Mutate(add_namespace(heap, n, ns), parents)

AddColumns ==
    \E t \in NodeIds(heap, "Table"),
       cols \in SeqsUpTo(NodeIds(heap, "Column"), MaxArgs) \ {<<>>} :
        Mutate(add_columns(heap, t, cols), parents)

\* no compilation is under way
NoBuild == [pc |-> "none"]

Init ==
    /\ heap = <<>>
    /\ parents = <<>>
    /\ nops = 0
    /\ last = Idle
    /\ build = NoBuild

Construct ==
    /\ Len(heap) < MaxNodes
    /\ \/ NewName
       \/ NewNamespace
       \/ NewColumn
       \/ NewTable
       \/ NewWildcard
       \/ NewAlias
       \/ NewBinaryOp
       \/ NewFrom

Next ==
    \/ Construct
    \/ AddParents
    \/ RemoveParents
    \/ ClearParents
    \/ AddSelfAsParent
    \/ CompileParents
    \/ AddTable
    \/ AddNamespace
    \/ AddColumns

Spec == Init /\ [][Next]_vars

(***************************************************************************)
(* Properties of the parent sets and the back-references (Spec).           *)
(***************************************************************************)
\* two values, or two trees, with the same variants, the same primitive
\* values and the same positional children in every field children looks at
RECURSIVE SameTree(_, _, _)
RECURSIVE SameValue(_, _, _)
SameValue(h, x, y) ==
    IF x.k # y.k THEN FALSE
    ELSE IF x.k = "node" THEN SameTree(h, x.v, y.v)
    ELSE IF x.k = "list"
         THEN /\ Len(x.v) = Len(y.v)
              /\ \A i \in 1..Len(x.v) : SameValue(h, x.v[i], y.v[i])
    ELSE x.v = y.v
SameTree(h, a, b) ==
    /\ h[a].cls = h[b].cls
    /\ \A i \in 1..Len(h[a].fld) :
          Obfuscated(FieldNames(h[a].cls)[i])
          \/ SameValue(h, h[a].fld[i], h[b].fld[i])

\* the obfuscated fields of a node, in declaration order
BackReferences(h, n) ==
    LET names == FieldNames(h[n].cls)
    IN [i \in {j \in 1..Len(names) : Obfuscated(names[j])} |-> h[n].fld[i]]

\* C1: two trees with the same variants, primitive values and positional
\* children compare equal (their diff is empty) whatever parents, tables,
\* namespaces and columns have been attached to the nodes of either.
C1_CompareIgnoresBackReferences ==
    \A a, b \in Nodes(heap) :
        SameTree(heap, a, b) =>
            compare(heap, a, b) /\ diff(heap, a, b) = <<>>

\* two distinct identical trees whose back-references and parents differ
C1_Witness ==
    \E a, b \in Nodes(heap) :
        /\ a # b
        /\ SameTree(heap, a, b)
        /\ BackReferences(heap, a) # BackReferences(heap, b)
        /\ parents[a] # parents[b]
        /\ compare(heap, a, b)

\* C3: compile_parents a second time leaves every parent set as the first
\* call left it, and a call never removes a parent that was present.
C3_CompileParentsIdempotent ==
    \A r \in Nodes(heap) :
        LET once == compile_parents(heap, parents, r)
            twice == compile_parents(heap, once, r)
        IN /\ twice = once
           /\ \A n \in Nodes(heap) : parents[n] \subseteq once[n]

\* compile_parents has run on a root with children: it adds nothing more,
\* and a parent that is no structural owner is still there
C3_Witness ==
    \E r \in Nodes(heap) :
        /\ children(heap, r) # <<>>
        /\ compile_parents(heap, parents, r) = parents
        /\ \E i \in 1..Len(children(heap, r)) :
              LET c == children(heap, r)[i]
              IN r \in parents[c] /\ parents[c] # {r}

\* the nodes below n, by as many steps of children as there are nodes
RECURSIVE Below(_, _, _)
Below(h, S, k) ==
    IF k = 0 THEN S
    ELSE Below(h, S \cup UNION {{children(h, m)[i] :
                                    i \in 1..Len(children(h, m))} : m \in S},
               k - 1)

Descendants(h, n) ==
    Below(h, {children(h, n)[i] : i \in 1..Len(children(h, n))}, Len(h))

\* C4: no node is a member of its own children, nor of the children of a
\* node below it: parents, tables, namespaces and columns are not children.
C4_ChildrenExcludeSelf ==
    \A n \in Nodes(heap) :
        /\ \A i \in 1..Len(children(heap, n)) : children(heap, n)[i] # n
        /\ n \notin Descendants(heap, n)

\* a table and a column refer to each other, and a node is its own parent
C4_Witness ==
    \E t, c \in Nodes(heap) :
        /\ heap[t].cls = "Table"
        /\ heap[c].cls = "Column"
        /\ Field(heap, c, "_table") = VNode(t)
        /\ \E i \in 1..Len(Field(heap, t, "_columns").v) :
              Field(heap, t, "_columns").v[i] = VNode(c)
        /\ \E n \in Nodes(heap) : parents[n] # {}

\* C6: a table bound to a Column or a Wildcard is never changed by a later
\* call.
C6_TableSetOnce ==
    [][\A n \in Nodes(heap) :
          (HasField(heap, n, "_table") /\ ~IsNoneVal(Field(heap, n, "_table")))
          => Field(heap', n, "_table") = Field(heap, n, "_table")]_vars

\* a column bound to one table was later added to the columns of another
C6_Witness ==
    \E c, t \in Nodes(heap) :
        /\ HasField(heap, c, "_table")
        /\ HasField(heap, t, "_columns")
        /\ ~IsNoneVal(Field(heap, c, "_table"))
        /\ Field(heap, c, "_table") # VNode(t)
        /\ \E i \in 1..Len(Field(heap, t, "_columns").v) :
              Field(heap, t, "_columns").v[i] = VNode(c)

\* C10: alias_or_name is the name of the parent when the node has exactly
\* one parent and it is an Alias, and the node's own name in every other
\* case: no parent, one parent of another variant, more than one parent.
C10_AliasOrName ==
    \A n \in NodeIds(heap, "Named") :
        LET aliases == {p \in parents[n] : heap[p].cls = "Alias"}
            r == alias_or_name(heap, parents, n)
        IN IF Cardinality(parents[n]) = 1 /\ aliases = parents[n]
           THEN \A p \in aliases : r = Field(heap, p, "name")
           ELSE r = Field(heap, n, "name")

\* a node with two parents, one of them an Alias of another name
C10_Witness ==
    \E n \in NodeIds(heap, "Named") :
        /\ Cardinality(parents[n]) = 2
        /\ \E p \in parents[n] :
              /\ heap[p].cls = "Alias"
              /\ Field(heap, p, "name") # Field(heap, n, "name")
        /\ alias_or_name(heap, parents, n) = Field(heap, n, "name")

(***************************************************************************)
(* The calls that return a result: last holds the call and what it         *)
(* returned until the caller drops it.                                     *)
(***************************************************************************)
Return(op, args, ret) ==
    /\ last = Idle
    /\ last' = [op |-> op, args |-> args, ret |-> ret]
    /\ UNCHANGED <<heap, parents, nops, build>>

Discard ==
    /\ last.op # "idle"
    /\ last' = Idle
    /\ UNCHANGED <<heap, parents, nops, build>>

FindTypes == {"Table", "Column", "Expression"}
Funcs == {PredTrue, PredFalse} \cup {PredIsInstance(T) : T \in FindTypes}

\* The nodes are not changed by these calls, so a call on older nodes
\* returns what it returned before the newest node was built: the calls
\* explored are those that involve the newest node.
Newest == Len(heap)
NewestPairs ==
    {pr \in Nodes(heap) \X Nodes(heap) : pr[1] = Newest \/ pr[2] = Newest}

FlattenCall ==
    /\ Newest > 0
    /\ Return("flatten", <<Newest>>, NodeFlatten(heap, Newest))

ApplyCall ==
    /\ Newest > 0
    /\ Return("apply", <<Newest>>, apply(heap, Newest))

FilterCall ==
    /\ Newest > 0
    /\ \E func \in Funcs :
          Return("filter", <<Newest, func>>, filter(heap, Newest, func))

FindAllCall ==
    /\ Newest > 0
    /\ \E T \in FindTypes :
          Return("find_all", <<Newest, T>>, find_all(heap, Newest, T))

DiffCall ==
    \E pr \in NewestPairs :
        Return("diff", pr, diff(heap, pr[1], pr[2]))

CompareCall ==
    \E pr \in NewestPairs :
        Return("compare", pr, compare(heap, pr[1], pr[2]))

EqCall ==
    \E pr \in NewestPairs :
        Return("eq", pr, NodeEq(heap, pr[1], pr[2]))

\* the queries of tests/sql/parsing/test_ast.py: trivial_query, as
\* test_flatten_trivial lists it, and the query test_trivial_ne compares
\* it with
TrivialQueries ==
    << [cls |-> "Table", fld |-> <<VStr("a"), VNone, VList(<<>>)>>],
       [cls |-> "From", fld |-> <<VNode(1), VList(<<>>)>>],
       [cls |-> "Wildcard", fld |-> <<VNone>>],
       [cls |-> "Select",
        fld |-> <<VBool(FALSE), VNode(2), VList(<<>>), VNone,
                  VList(<<VNode(3)>>), VNone, VNone>>],
       [cls |-> "Query", fld |-> <<VNode(4), VList(<<>>)>>],
       [cls |-> "Table", fld |-> <<VStr("b"), VNone, VList(<<>>)>>],
       [cls |-> "From", fld |-> <<VNode(6), VList(<<>>)>>],
       [cls |-> "Column", fld |-> <<VStr("a"), VNone, VNone>>],
       [cls |-> "Select",
        fld |-> <<VBool(FALSE), VNode(7), VList(<<>>), VNone,
                  VList(<<VNode(8)>>), VNone, VNone>>],
       [cls |-> "Query", fld |-> <<VNode(9), VList(<<>>)>> ] >>

InitQuery ==
    /\ heap \in {<<>>, TrivialQueries}
    /\ parents = [i \in 1..Len(heap) |-> {}]
    /\ nops = 0
    /\ last = Idle
    /\ build = NoBuild

\* a Query is the root of a statement: it may still be built over a heap
\* that holds MaxQueryNodes nodes
ConstructAny ==
    \/ /\ Len(heap) <= MaxQueryNodes
       /\ NewQuery
    \/ /\ Len(heap) < MaxQueryNodes
       /\ \/ NewName
          \/ NewNamespace
          \/ NewColumn
          \/ NewTable
          \/ NewWildcard
          \/ NewAlias
          \/ NewBinaryOp
          \/ NewFrom
          \/ NewNumber
          \/ NewString
          \/ NewBoolean
          \/ NewUnaryOp
          \/ NewBetween
          \/ NewCase
          \/ NewFunction
          \/ NewIsNull
          \/ NewJoin
          \/ NewSelect

\* building trees and traversing them
NextQuery ==
    \/ ConstructAny
    \/ FlattenCall
    \/ ApplyCall
    \/ FilterCall
    \/ FindAllCall
    \/ Discard

SpecQuery == InitQuery /\ [][NextQuery]_vars

\* building trees and comparing them
NextDiff ==
    \/ ConstructAny
    \/ DiffCall
    \/ CompareCall
    \/ EqCall
    \/ Discard

SpecDiff == InitQuery /\ [][NextDiff]_vars

(***************************************************************************)
(* Building a Number from any value.                                       *)
(***************************************************************************)
Literals == {VChars(cs) : cs \in SeqsUpTo(Chars, MaxStrLen)}

NumberInputs ==
    Literals \cup {VInt(0), VInt(5), VFloat(5 * Scale), VFloat(Scale \div 2),
                   VBool(TRUE), VBool(FALSE), VNone}

\* Number(raw): the node is built unless __post_init__ raises
NumberCall ==
    /\ last = Idle
    /\ Len(heap) < MaxNumbers
    /\ \E raw \in NumberInputs :
          LET r == NumberPostInit(raw)
          IN /\ last' = [op |-> "Number", args |-> <<raw>>,
                         ret |-> IF r.exc = "none"
                                 THEN VNode(Len(heap) + 1) ELSE VStr(r.exc)]
             /\ heap' = IF r.exc = "none"
                        THEN Append(heap, [cls |-> "Number",
                                           fld |-> <<r.value>>])
                        ELSE heap
             /\ parents' = IF r.exc = "none" THEN Append(parents, {})
                           ELSE parents
             /\ UNCHANGED <<nops, build>>

NextNumber == NumberCall \/ Discard

SpecNumber == Init /\ [][NextNumber]_vars

(***************************************************************************)
(* Properties of the traversals (SpecQuery), of diff and of the hashes      *)
(* (SpecDiff).                                                             *)
(***************************************************************************)
\* the positions below n: a position is the list of the child indexes that
\* lead to it
RECURSIVE Positions(_, _)
Positions(h, n) ==
    {<<>>} \cup UNION {{<<i>> \o p : p \in Positions(h, children(h, n)[i])} :
                        i \in 1..Len(children(h, n))}

RECURSIVE NodeAt(_, _, _)
NodeAt(h, n, p) ==
    IF p = <<>> THEN n ELSE NodeAt(h, children(h, n)[Head(p)], Tail(p))

\* p comes before q in depth-first pre-order
Before(p, q) ==
    \/ Len(p) < Len(q) /\ SubSeq(q, 1, Len(p)) = p
    \/ \E i \in 1..Min(Len(p), Len(q)) :
          /\ SubSeq(p, 1, i - 1) = SubSeq(q, 1, i - 1)
          /\ p[i] < q[i]

RECURSIVE InOrder(_)
InOrder(P) ==
    IF P = {} THEN <<>>
    ELSE LET first == CHOOSE p \in P : \A q \in P \ {p} : Before(p, q)
         IN <<first>> \o InOrder(P \ {first})

PreOrder(h, n) ==
    LET ps == InOrder(Positions(h, n))
    IN [i \in 1..Len(ps) |-> NodeAt(h, n, ps[i])]

\* C5: apply invokes its function on the nodes that flatten yields, node
\* for node and in the same order.
C5_ApplyVisitsAsFlatten ==
    /\ last.op = "apply" => last.ret = NodeFlatten(heap, last.args[1])
    /\ last.op = "flatten" => last.ret = apply(heap, last.args[1])

\* apply has run on a node with two subtrees, one of them two levels deep
C5_Witness ==
    /\ last.op = "apply"
    /\ Len(children(heap, last.args[1])) >= 2
    /\ \E p \in Positions(heap, last.args[1]) : Len(p) >= 2
    /\ Len(last.ret) >= 4

\* C7: filter yields the nodes of the subtree, the node itself included,
\* that satisfy the predicate, in depth-first pre-order: the subsequence of
\* flatten on which the predicate holds; find_all is filter by isinstance.
C7_FilterPreOrder ==
    /\ last.op = "filter" =>
          LET n == last.args[1]
              func == last.args[2]
          IN /\ last.ret = SelectSeq(PreOrder(heap, n),
                                     LAMBDA m : Call(func, heap, m))
             /\ last.ret = SelectSeq(NodeFlatten(heap, n),
                                     LAMBDA m : Call(func, heap, m))
    /\ last.op = "find_all" =>
          last.ret = SelectSeq(PreOrder(heap, last.args[1]),
                               LAMBDA m : last.args[2] \in Bases(heap[m].cls))
    /\ last.op = "flatten" => last.ret = PreOrder(heap, last.args[1])

\* filter has run with a predicate that the root fails and a node two
\* levels below it satisfies
C7_Witness ==
    /\ last.op = "filter"
    /\ ~Call(last.args[2], heap, last.args[1])
    /\ \E p \in Positions(heap, last.args[1]) :
          /\ Len(p) >= 2
          /\ Call(last.args[2], heap, NodeAt(heap, last.args[1], p))
    /\ last.ret # <<>>

\* the pair of values at a position of the lock-step walk of x and y: a
\* side that has no child at an index is None from there on
RECURSIVE PairAt(_, _, _, _)
PairAt(h, x, y, p) ==
    IF p = <<>> THEN <<x, y>>
    ELSE LET cx == IF IsNodeVal(x) THEN children(h, x.v) ELSE <<>>
             cy == IF IsNodeVal(y) THEN children(h, y.v) ELSE <<>>
             i == Head(p)
         IN PairAt(h, IF i <= Len(cx) THEN VNode(cx[i]) ELSE VNone,
                      IF i <= Len(cy) THEN VNode(cy[i]) ELSE VNone, Tail(p))

\* the positions either tree has
PairPositions(h, a, b) == Positions(h, a) \cup Positions(h, b)

Mismatch(h, pr) ==
    ~(IsNodeVal(pr[1]) /\ IsNodeVal(pr[2]) /\ NodeEq(h, pr[1].v, pr[2].v))

\* the positions diff is to record: a mismatch with no mismatch above it
Recorded(h, a, b) ==
    {p \in PairPositions(h, a, b) :
        /\ Mismatch(h, PairAt(h, VNode(a), VNode(b), p))
        /\ \A k \in 0..(Len(p) - 1) :
              ~Mismatch(h, PairAt(h, VNode(a), VNode(b), SubSeq(p, 1, k)))}

ExpectedDiff(h, a, b) ==
    LET ps == InOrder(Recorded(h, a, b))
    IN [i \in 1..Len(ps) |-> PairAt(h, VNode(a), VNode(b), ps[i])]

\* C8: diff records the pair at every position of the lock-step walk where
\* shallow equality fails and has not failed above, a missing child being
\* paired with None and recorded; compare is true exactly when there is no
\* such position.
C8_DiffLockStep ==
    /\ last.op = "diff" =>
          last.ret = ExpectedDiff(heap, last.args[1], last.args[2])
    /\ last.op = "compare" =>
          (last.ret <=> Recorded(heap, last.args[1], last.args[2]) = {})

\* diff has recorded a child paired with None, and left alone a mismatch
\* that lies below a recorded pair
C8_Witness ==
    /\ last.op = "diff"
    /\ \E i \in 1..Len(last.ret) :
          IsNoneVal(last.ret[i][1]) \/ IsNoneVal(last.ret[i][2])
    /\ LET a == last.args[1]
           b == last.args[2]
       IN \E p \in PairPositions(heap, a, b) \ Recorded(heap, a, b) :
              Mismatch(heap, PairAt(heap, VNode(a), VNode(b), p))

\* C2: two nodes of one variant that are equal under __eq__ have equal
\* hashes.
C2_HashConsistentWithEq ==
    (last.op = "eq" /\ last.ret
        /\ heap[last.args[1]].cls = heap[last.args[2]].cls)
    => Hash(heap, last.args[1]) = Hash(heap, last.args[2])

(***************************************************************************)
(* Properties of Number (SpecNumber).                                      *)
(***************************************************************************)
\* C9: Number keeps an int or a float as it is; any other value is parsed
\* as an integer first and as a float only when that fails: "5" gives the
\* int 5 and "5.5" the float 5.5.
C9_NumberNormalization ==
    last.op = "Number" =>
        LET raw == last.args[1]
            built == IsNodeVal(last.ret)
            value == Field(heap, last.ret.v, "value")
        IN /\ raw.k \in {"int", "float"} => built /\ value = raw
           /\ (raw.k = "str" /\ raw.v = <<"5">>) => built /\ value = VInt(5)
           /\ (raw.k = "str" /\ raw.v = <<"5", ".", "5">>) =>
                  built /\ value = VFloat(5 * Scale + Scale \div 2)
           /\ (raw.k \notin {"int", "float"} /\ IntOf(raw).exc = "none") =>
                  built /\ value = IntOf(raw).value
           /\ (built /\ raw.k \notin {"int", "float"} /\ value.k = "float") =>
                  IntOf(raw).exc = "ValueError" /\ value = FloatOf(raw).value

\* Number("5.5") has been built
C9_Witness ==
    /\ last.op = "Number"
    /\ last.args[1] = VChars(<<"5", ".", "5">>)
    /\ IsNodeVal(last.ret)
    /\ Field(heap, last.ret.v, "value").k = "float"

(***************************************************************************)
(* The catalog of a compilation (dj.models, read only by the rewrite): the *)
(* node revisions with their type, their declared columns, each optionally *)
(* tagged with a dimension and its join column, and their physical tables, *)
(* one per database.                                                       *)
(***************************************************************************)
MaxDepth == 2

Databases == {1, 2}

\* the catalogs of the model: orders and events are sources or transforms,
\* their columns may be tagged with the dimensions users and dates, with or
\* without a join column; users may lack the default key id; the top query
\* joins nothing, events, the users dimension itself or orders a second
\* time, and selects country of users and day of dates or not
Catalogs ==
    LET ColumnDecl(name, dimension, dimension_column) ==
            [name |-> name, dimension |-> dimension,
             dimension_column |-> dimension_column]
        Plain == ColumnDecl("amount", VNone, VNone)
        UserKey(dc) == ColumnDecl("user_id", VStr("dim.users"), dc)
        AltKey(dc) == ColumnDecl("alt_id", VStr("dim.users"), dc)
        DayKey(dc) == ColumnDecl("day_id", VStr("dim.dates"), dc)
    IN [ orders : {"SOURCE", "TRANSFORM"},
         events : {"SOURCE", "TRANSFORM"},
         orders_columns :
             { <<Plain>>,
               <<Plain, UserKey(VNone)>>,
               <<UserKey(VStr("uid"))>>,
               <<UserKey(VNone), AltKey(VStr("uid"))>>,
               <<UserKey(VNone), DayKey(VStr("d_id"))>>,
               <<UserKey(VStr("uid")), DayKey(VNone)>> },
         events_columns :
             { <<Plain>>, <<UserKey(VNone)>>, <<DayKey(VStr("d_id"))>> },
         users_columns :
             { <<ColumnDecl("id", VNone, VNone),
                 ColumnDecl("country", VNone, VNone)>>,
               <<ColumnDecl("country", VNone, VNone)>> },
         joined : {"none", "events", "dim.users", "orders"},
         country : BOOLEAN,
         day : BOOLEAN ]

\* a node revision: node.type, node.columns and node.tables, one physical
\* table of the node in each database
Revision(cat, node) ==
    [ type |->
          CASE node = "orders" -> cat.orders
            [] node = "events" -> cat.events
            [] node \in {"dim.users", "dim.dates"} -> "DIMENSION"
            [] node = "raw" -> "SOURCE",
      columns |->
          CASE node = "orders" -> cat.orders_columns
            [] node = "events" -> cat.events_columns
            [] node = "dim.users" -> cat.users_columns
            [] node = "dim.dates" ->
                   <<[name |-> "day", dimension |-> VNone,
                      dimension_column |-> VNone]>>
            [] node = "raw" ->
                   <<[name |-> "amount", dimension |-> VNone,
                      dimension_column |-> VNone]>>,
      tables |->
          << [database |-> 1, table |-> node \o "_1",
              catalog |-> VNone, schema_ |-> VStr("public")],
             [database |-> 2, table |-> node \o "_2",
              catalog |-> VStr("lake"), schema_ |-> VStr("gold")] >> ]

(***************************************************************************)
(* The parsed queries of a compilation, as the parser and the build plan   *)
(* hand them to the rewrite: the top query                                 *)
(*   SELECT user_id [, country] [, day] FROM orders [JOIN <joined> ON TRUE] *)
(* and the defining query of every node that has one.  A Table stands for  *)
(* the node it is named after (dj_node); country and day are columns of    *)
(* the dimensions users and dates.                                         *)
(***************************************************************************)
\* where the nodes of the top query are in the heap
At ==
    [ orders |-> 2, user_id |-> 4, users |-> 6, country |-> 8, dates |-> 10,
      day |-> 12, joined |-> 14, from_ |-> 17, select |-> 18, query |-> 19,
      where |-> 48, group_by |-> 50 ]

\* build_plan_lookup[node]: the parsed query of the node's own build plan;
\* the queries follow the top query, seven nodes each
PlanQuery(node) ==
    CASE node = "orders" -> At.query + 7
      [] node = "events" -> At.query + 14
      [] node = "dim.users" -> At.query + 21
      [] node = "dim.dates" -> At.query + 28

\* the heap after parsing; with where and group_by the top query has its
\* own WHERE FALSE and GROUP BY user_id
ParsedQueries(cat, where, group_by) ==
    LET Obj(cls, fld) == [cls |-> cls, fld |-> fld]
        NameObj(s) == Obj("Name", <<VStr(s), VStr("")>>)
        TableObj(name, cols) ==
            Obj("Table", <<VNode(name), VNone, VList(cols)>>)
        ColumnObj(name, table) == Obj("Column", <<VNode(name), VNone, table>>)
        SelectObj(from_, group, projection, cond) ==
            Obj("Select", <<VBool(FALSE), VNode(from_), VList(group), VNone,
                            VList(projection), cond, VNone>>)
        QueryObj(select) == Obj("Query", <<VNode(select), VList(<<>>)>>)
        joined_table ==
            IF cat.joined = "dim.users" THEN At.users ELSE At.joined
        joined_name == IF cat.joined = "orders" THEN "orders" ELSE "events"
        TopQuery ==
            << NameObj("orders"),
               TableObj(1, <<VNode(At.user_id)>>),
               NameObj("user_id"),
               ColumnObj(3, VNode(At.orders)),
               NameObj("dim.users"),
               TableObj(5, <<VNode(At.country)>>),
               NameObj("country"),
               ColumnObj(7, VNode(At.users)),
               NameObj("dim.dates"),
               TableObj(9, <<VNode(At.day)>>),
               NameObj("day"),
               ColumnObj(11, VNode(At.dates)),
               NameObj(joined_name),
               TableObj(13, <<>>),
               Obj("Boolean", <<VBool(TRUE)>>),
               Obj("Join", <<VEnum("JoinKind", "Inner"), VNode(joined_table),
                             VNode(15)>>),
               Obj("From", <<VNode(At.orders),
                             VList(IF cat.joined = "none" THEN <<>>
                                   ELSE <<VNode(16)>>)>>),
               SelectObj(At.from_,
                         IF group_by THEN <<VNode(At.group_by)>> ELSE <<>>,
                         <<VNode(At.user_id)>>
                         \o (IF cat.country THEN <<VNode(At.country)>>
                             ELSE <<>>)
                         \o (IF cat.day THEN <<VNode(At.day)>> ELSE <<>>),
                         IF where THEN VNode(At.where) ELSE VNone),
               QueryObj(At.select) >>
        NodeQuery(root, source, column) ==
            << NameObj(source),
               TableObj(root - 6, <<VNode(root - 2)>>),
               Obj("From", <<VNode(root - 5), VList(<<>>)>>),
               NameObj(column),
               ColumnObj(root - 3, VNode(root - 5)),
               SelectObj(root - 4, <<>>, <<VNode(root - 2)>>, VNone),
               QueryObj(root - 1) >>
    IN TopQuery
       \o NodeQuery(PlanQuery("orders"), "events", "user_id")
       \o NodeQuery(PlanQuery("events"), "raw", "user_id")
       \o NodeQuery(PlanQuery("dim.users"), "raw", "country")
       \o NodeQuery(PlanQuery("dim.dates"), "raw", "day")
       \o << Obj("Boolean", <<VBool(FALSE)>>),
             NameObj("user_id"),
             ColumnObj(At.group_by - 1, VNode(At.orders)) >>

\* Table.dj_node as the build plan left it: the node each parsed Table
\* stands for
PlannedTables(cat) ==
    (At.orders :> "orders") @@ (At.users :> "dim.users")
    @@ (At.dates :> "dim.dates")
    @@ (At.joined :> (IF cat.joined = "orders" THEN "orders" ELSE "events"))
    @@ (PlanQuery("orders") - 5 :> "events")
    @@ (PlanQuery("events") - 5 :> "raw")
    @@ (PlanQuery("dim.users") - 5 :> "raw")
    @@ (PlanQuery("dim.dates") - 5 :> "raw")

\* the parents as the parser leaves them: every node has its structural
\* owner as a parent
ParsedParents(h) ==
    LET owned == UNION {{<<p, children(h, p)[j]>> :
                            j \in 1..Len(children(h, p))} : p \in 1..Len(h)}
    IN [i \in 1..Len(h) |-> {e[1] : e \in {o \in owned : o[2] = i}}]
(***************************************************************************)
(* What a compilation holds while it rewrites: the nodes and their         *)
(* parents, the node each Table stands for (dj_node), the columns marked   *)
(* as added by the API, the nested builds made so far, and the exception   *)
(* that ended it, if any.                                                  *)
(***************************************************************************)
\* Table.dj_node: a Table built by the rewrite stands for no node
dj_node(m, t) == IF t \in DOMAIN m.dj THEN m.dj[t] ELSE ""

\* a dataclass __init__ and Node.__post_init__ during the rewrite: the new
\* node is the last of the heap
Alloc(m, cls, fld) ==
    [m EXCEPT !.heap = Append(@, [cls |-> cls, fld |-> fld]),
              !.parents = Append(@, {})]

\* a dict in insertion order: d[k], and d.get(k, []) followed by .append(x)
Get(d, k) == d[CHOOSE i \in 1..Len(d) : d[i].key = k].val

DictAppend(d, k, x) ==
    IF \E i \in 1..Len(d) : d[i].key = k
    THEN [i \in 1..Len(d) |->
             IF d[i].key = k THEN [key |-> k, val |-> Append(d[i].val, x)]
             ELSE d[i]]
    ELSE Append(d, [key |-> k, val |-> <<x>>])

\* amenable_name: the name of a node as an identifier
amenable_name(name) ==
    CASE name = "dim.users" -> "dim_DOT_users"
      [] name = "dim.dates" -> "dim_DOT_dates"
      [] OTHER -> name

\* lines 23-43: the placeholder Tables of the select by node, and its
\* Columns bound to the placeholder of a dimension by dimension
_get_tables_and_dim_cols(m, cat, select) ==
    LET RECURSIVE CollectTables(_, _)
        CollectTables(ts, tables) ==
            IF ts = <<>> THEN tables
            ELSE CollectTables(Tail(ts),
                     IF dj_node(m, Head(ts)) # ""
                     THEN DictAppend(tables, dj_node(m, Head(ts)), Head(ts))
                     ELSE tables)
        RECURSIVE CollectDimensionColumns(_, _)
        CollectDimensionColumns(cs, dimension_columns) ==
            IF cs = <<>> THEN dimension_columns
            ELSE LET col == Head(cs)
                     table == Field(m.heap, col, "_table")
                     hit == /\ IsNodeVal(table)
                            /\ IsInstance(m.heap, table.v, "Table")
                            /\ dj_node(m, table.v) # ""
                            /\ Revision(cat, dj_node(m, table.v)).type
                                   = "DIMENSION"
                 IN CollectDimensionColumns(Tail(cs),
                        IF hit
                        THEN DictAppend(dimension_columns,
                                        dj_node(m, table.v), col)
                        ELSE dimension_columns)
    IN [ tables |-> CollectTables(find_all(m.heap, select, "Table"), <<>>),
         dimension_columns |->
             CollectDimensionColumns(find_all(m.heap, select, "Column"),
                                     <<>>) ]

(***************************************************************************)
(* _build_dimensions_on_select, piece by piece.                            *)
(***************************************************************************)
\* lines 62-78: join_info, an entry for every directly-joined node holding
\* its columns tagged with dim_node, or the DJException for the first such
\* column that has no join column while the dimension has no column id
RECURSIVE JoinInfo(_, _, _, _)
JoinInfo(cat, tables, dim_node, join_info) ==
    LET dim_columns == Revision(cat, dim_node).columns
        RECURSIVE JoinDimCols(_, _)
        JoinDimCols(cols, join_dim_cols) ==
            IF cols = <<>>
            THEN [exc |-> "none", column |-> "", cols |-> join_dim_cols]
            ELSE LET col == Head(cols)
                 IN IF ~IsNoneVal(col.dimension) /\ col.dimension.v = dim_node
                    THEN IF /\ IsNoneVal(col.dimension_column)
                            /\ ~\E i \in 1..Len(dim_columns) :
                                   dim_columns[i].name = "id"
                         THEN [exc |-> "DJException", column |-> col.name,
                               cols |-> join_dim_cols]
                         ELSE JoinDimCols(Tail(cols),
                                          Append(join_dim_cols, col))
                    ELSE JoinDimCols(Tail(cols), join_dim_cols)
    IN IF tables = <<>>
       THEN [exc |-> "none",
             msg |-> [node |-> "", dimension |-> "", column |-> ""],
             join_info |-> join_info]
       ELSE LET table_node == Head(tables).key
                r == JoinDimCols(Revision(cat, table_node).columns, <<>>)
            IN IF r.exc # "none"
               THEN [exc |-> r.exc,
                     msg |-> [node |-> table_node, dimension |-> dim_node,
                              column |-> r.column],
                     join_info |-> join_info]
               ELSE JoinInfo(cat, Tail(tables), dim_node,
                             Append(join_info,
                                    [key |-> table_node, val |-> r.cols]))

\* lines 95-109 and 179-191: the physical table of a node in the chosen
\* database, ast.Table(ast.Name(table), namespace=ast.Namespace([ast.Name(s)
\* for s in (catalog, schema_) if s])); the keyword names the namespace of
\* Named; no table in the database is an IndexError
PhysicalTable(m, tables, database) ==
    LET found == SelectSeq(tables, LAMBDA table : table.database = database)
        Truthy(s) == ~IsNoneVal(s) /\ s.v # ""
    IN IF found = <<>>
       THEN [m |-> [m EXCEPT !.exc = "IndexError"], ast |-> 0]
       ELSE LET n == Len(m.heap)
                names == SelectSeq(<<found[1].catalog, found[1].schema_>>,
                                   Truthy)
                RECURSIVE Names(_, _)
                Names(mm, ss) ==
                    IF ss = <<>> THEN mm
                    ELSE Names(Alloc(mm, "Name", <<Head(ss), VStr("")>>),
                               Tail(ss))
            IN [ m |-> Alloc(Alloc(Names(Alloc(m, "Name",
                                                <<VStr(found[1].table),
                                                  VStr("")>>),
                                          names),
                                   "Namespace",
                                   <<VList([i \in 1..Len(names) |->
                                              VNode(n + 1 + i)])>>),
                             "Table",
                             <<VNode(n + 1), VNode(n + Len(names) + 2),
                               VList(<<>>)>>),
                 ast |-> n + Len(names) + 3 ]
\* reduce(lambda left, right: ast.BinaryOp(ast.BinaryOpKind.And, left,
\* right), asts): the three arguments of BinaryOp given by position, and no
\* initial value, so an empty list is a TypeError
ReduceAnd(m, asts) ==
    LET RECURSIVE ReduceFrom(_, _, _)
        ReduceFrom(mm, left, rest) ==
            IF rest = <<>> THEN [m |-> mm, ast |-> left]
            ELSE ReduceFrom(Alloc(mm, "BinaryOp",
                                  <<VEnum("BinaryOpKind", "And"), VNode(left),
                                    VNode(Head(rest))>>),
                            Len(mm.heap) + 1, Tail(rest))
    IN IF asts = <<>> THEN [m |-> [m EXCEPT !.exc = "TypeError"], ast |-> 0]
       ELSE ReduceFrom(m, Head(asts), Tail(asts))

\* lines 116-144: a LEFT OUTER join to dim_ast for every entry of join_info,
\* on the equalities ast.BinaryOp(ast.BinaryOpKind.Eq, ast.Column(
\* ast.Name(col.name), _table=table), ast.Column(ast.Name(
\* col.dimension_column or "id"), _table=dim_ast)) of its tables and columns
RECURSIVE SynthesizeJoins(_, _, _, _, _)
SynthesizeJoins(m, select, tables, join_info, dim_ast) ==
    LET from_ == Field(m.heap, select, "from_").v
        \* the nodes of one equality, in the order of their construction
        JoinKey(mm, col, table) ==
            LET n == Len(mm.heap)
                key == IF IsNoneVal(col.dimension_column)
                          \/ col.dimension_column.v = ""
                       THEN "id" ELSE col.dimension_column.v
            IN [ m |-> Alloc(Alloc(Alloc(Alloc(Alloc(mm,
                          "Name", <<VStr(col.name), VStr("")>>),
                          "Column", <<VNode(n + 1), VNone, VNode(table)>>),
                          "Name", <<VStr(key), VStr("")>>),
                          "Column", <<VNode(n + 3), VNone, VNode(dim_ast)>>),
                          "BinaryOp", <<VEnum("BinaryOpKind", "Eq"),
                                        VNode(n + 2), VNode(n + 4)>>),
                 ast |-> n + 5 ]
        RECURSIVE JoinOnCols(_, _, _, _)
        JoinOnCols(mm, table, cols, join_on) ==
            LET Added(k) ==
                    JoinOnCols(k.m, table, Tail(cols), Append(join_on, k.ast))
            IN IF cols = <<>> THEN [m |-> mm, join_on |-> join_on]
               ELSE Added(JoinKey(mm, Head(cols), table))
        RECURSIVE JoinOnTables(_, _, _, _)
        JoinOnTables(mm, ast_tables, cols, join_on) ==
            LET Added(r) ==
                    JoinOnTables(r.m, Tail(ast_tables), cols, r.join_on)
            IN IF ast_tables = <<>> THEN [m |-> mm, join_on |-> join_on]
               ELSE Added(JoinOnCols(mm, Head(ast_tables), cols, join_on))
        \* select.from_.joins.append(ast.Join(...)), the Join the last node
        AppendJoin(m1) ==
            [m1 EXCEPT !.heap =
                SetField(@, from_, "joins",
                         VList(Append(Field(@, from_, "joins").v,
                                      VNode(Len(@)))))]
        Joined(r) ==
            IF r.m.exc # "none" THEN r.m
            ELSE SynthesizeJoins(
                     AppendJoin(Alloc(r.m, "Join",
                                      <<VEnum("JoinKind", "LeftOuter"),
                                        VNode(dim_ast), VNode(r.ast)>>)),
                     select, tables, Tail(join_info), dim_ast)
        Reduced(on) == Joined(ReduceAnd(on.m, on.join_on))
    IN IF join_info = <<>> THEN m
       ELSE Reduced(JoinOnTables(m, Get(tables, Head(join_info).key),
                                 Head(join_info).val, <<>>))

(***************************************************************************)
(* Node.replace: every occurrence of from_ in a field of a node of the     *)
(* subtree, a back-reference included, becomes to.                         *)
(***************************************************************************)
replace(h, n, from_, to) ==
    LET flat == NodeFlatten(h, n)
        subtree == {flat[i] : i \in 1..Len(flat)}
        ReplaceValue(x) ==
            IF x = VNode(from_) THEN VNode(to)
            ELSE IF x.k = "list"
                 THEN VList([i \in 1..Len(x.v) |->
                                IF x.v[i] = VNode(from_) THEN VNode(to)
                                ELSE x.v[i]])
            ELSE x
    IN [i \in 1..Len(h) |->
           IF i \in subtree
           THEN [h[i] EXCEPT !.fld = [j \in 1..Len(@) |-> ReplaceValue(@[j])]]
           ELSE h[i]]

(***************************************************************************)
(* The rewrite of one select and its nested builds.                        *)
(***************************************************************************)
\* a nested build at the same depth
SameDepth(build_plan_depth) == build_plan_depth

\* a nested build gets the depth less one
NestedDepth(build_plan_depth) == build_plan_depth - 1

RECURSIVE QueryBuild(_, _, _, _, _, _)

\* lines 80-93 and 164-175: the build of the node's own query, one level
\* further down, and ast.Alias(ast.Name(amenable_name(node)),
\* child=node_ast.select)
NestedBuild(m, cat, node, build_plan_depth, level, db) ==
    LET Aliased(m1) ==
            IF m1.exc # "none" THEN [m |-> m1, ast |-> 0]
            ELSE [ m |-> Alloc(Alloc(m1, "Name",
                                     <<VStr(amenable_name(node)), VStr("")>>),
                               "Alias",
                               <<VNode(Len(m1.heap) + 1), VNone,
                                 Field(m1.heap, PlanQuery(node), "select")>>),
                   ast |-> Len(m1.heap) + 2 ]
    IN Aliased(QueryBuild([m EXCEPT !.nested =
                              Append(@, [node |-> node,
                                         from |-> build_plan_depth,
                                         level |-> level + 1])],
                          cat, PlanQuery(node),
                          NestedDepth(build_plan_depth), level + 1, db))

\* lines 60-144
RECURSIVE _build_dimensions_on_select(_, _, _, _, _, _, _, _)
_build_dimensions_on_select(m, cat, select, dimension_columns, tables, build_plan_depth, level, db) ==
    LET dim_node == Head(dimension_columns).key
        dim_cols == Head(dimension_columns).val
        RECURSIVE AddTableEach(_, _, _)
        AddTableEach(h, cols, dim_ast) ==
            IF cols = <<>> THEN h
            ELSE AddTableEach(add_table(h, Head(cols), VNode(dim_ast)),
                              Tail(cols), dim_ast)
        \* lines 79-144, info the join_info and d the dim_ast
        JoinDimension(info, d) ==
            IF info.exc # "none"
            THEN [m EXCEPT !.exc = info.exc, !.msg = info.msg]
            ELSE IF d.m.exc # "none" THEN d.m
            ELSE SynthesizeJoins(
                     [d.m EXCEPT !.heap = AddTableEach(@, dim_cols, d.ast)],
                     select, tables, info.join_info, d.ast)
    IN IF dimension_columns = <<>> \/ m.exc # "none" THEN m
       ELSE _build_dimensions_on_select(
                IF \E i \in 1..Len(tables) : tables[i].key = dim_node THEN m
                ELSE JoinDimension(
                         JoinInfo(cat, tables, dim_node, <<>>),
                         IF build_plan_depth > 0
                         THEN NestedBuild(m, cat, dim_node, build_plan_depth,
                                          level, db)
                         ELSE PhysicalTable(m, Revision(cat, dim_node).tables,
                                            db)),
                cat, select, Tail(dimension_columns), tables,
                build_plan_depth, level, db)

\* lines 161-194 for one node without the replacement after the branches
BuildTableNoReplace(m, cat, select, node, tbls, build_plan_depth, level, db) ==
    LET RECURSIVE ReplaceEach(_, _, _)
        ReplaceEach(h, ts, node_ast) ==
            IF ts = <<>> THEN h
            ELSE ReplaceEach(replace(h, select, Head(ts), node_ast), Tail(ts),
                             node_ast)
        Replaced(a) ==
            IF a.m.exc # "none" THEN a
            ELSE [m |-> [a.m EXCEPT !.heap = ReplaceEach(@, tbls, a.ast)],
                  ast |-> a.ast]
        ReplacedAgain(t) == t.m
    IN ReplacedAgain(
           IF Revision(cat, node).type # "SOURCE" /\ build_plan_depth > 0
           THEN Replaced(NestedBuild(m, cat, node, build_plan_depth, level,
                                     db))
           ELSE PhysicalTable(m, Revision(cat, node).tables, db))

\* lines 161-194 for one node: the alias of its nested build, which
\* replaces the placeholders at once, or its physical table; then for tbl
\* in tbls: select.replace(tbl, node_ast)
BuildTable(m, cat, select, node, tbls, build_plan_depth, level, db) ==
    LET RECURSIVE ReplaceEach(_, _, _)
        ReplaceEach(h, ts, node_ast) ==
            IF ts = <<>> THEN h
            ELSE ReplaceEach(replace(h, select, Head(ts), node_ast), Tail(ts),
                             node_ast)
        \* lines 176-177
        Replaced(a) ==
            IF a.m.exc # "none" THEN a
            ELSE [m |-> [a.m EXCEPT !.heap = ReplaceEach(@, tbls, a.ast)],
                  ast |-> a.ast]
        \* lines 193-194
        ReplacedAgain(t) ==
            IF t.m.exc # "none" THEN t.m
            ELSE [t.m EXCEPT !.heap = ReplaceEach(@, tbls, t.ast)]
    IN ReplacedAgain(
           IF Revision(cat, node).type # "SOURCE" /\ build_plan_depth > 0
           THEN Replaced(NestedBuild(m, cat, node, build_plan_depth, level,
                                     db))
           ELSE PhysicalTable(m, Revision(cat, node).tables, db))

\* lines 159-194
RECURSIVE _build_tables_on_select(_, _, _, _, _, _, _)
_build_tables_on_select(m, cat, select, tables, build_plan_depth, level, db) ==
    IF tables = <<>> \/ m.exc # "none" THEN m
    ELSE _build_tables_on_select(
             BuildTable(m, cat, select, Head(tables).key, Head(tables).val,
                        build_plan_depth, level, db),
             cat, select, Tail(tables), build_plan_depth, level, db)

\* the tables pass runs on although the dimensions pass has raised
_build_select_astRecover(m, cat, select, build_plan_depth, level, db) ==
    LET Tables(c, m1) ==
            _build_tables_on_select([m1 EXCEPT !.exc = "none"], cat, select,
                                    c.tables, build_plan_depth, level, db)
        Dimensions(c) ==
            Tables(c, _build_dimensions_on_select(
                          m, cat, select, c.dimension_columns, c.tables,
                          build_plan_depth, level, db))
    IN Dimensions(_get_tables_and_dim_cols(m, cat, select))

\* lines 198-233
_build_select_ast(m, cat, select, build_plan_depth, level, db) ==
    LET Tables(c, m1) ==
            IF m1.exc # "none" THEN m1
            ELSE _build_tables_on_select(m1, cat, select, c.tables,
                                         build_plan_depth, level, db)
        Dimensions(c) ==
            Tables(c, _build_dimensions_on_select(
                          m, cat, select, c.dimension_columns, c.tables,
                          build_plan_depth, level, db))
    IN Dimensions(_get_tables_and_dim_cols(m, cat, select))

\* Query.build: the rewrite of the select of the query
QueryBuild(m, cat, query, build_plan_depth, level, db) ==
    _build_select_ast(
        [m EXCEPT !.calls = Append(@, [query |-> query,
                                       depth |-> build_plan_depth,
                                       level |-> level])],
        cat, Field(m.heap, query, "select").v, build_plan_depth, level, db)
(***************************************************************************)
(* The rewrite of the top select, pass by pass as _build_select_ast runs   *)
(* them, at any depth and for any database.                                *)
(***************************************************************************)
Machine ==
    [ heap |-> heap, parents |-> parents, dj |-> build.dj, api |-> build.api,
      calls |-> build.calls, nested |-> build.nested,
      exc |-> "none", msg |-> [node |-> "", dimension |-> "", column |-> ""] ]

\* the state a pass leaves: the pass is done, or the exception ended it
Store(m, pc) ==
    /\ heap' = m.heap
    /\ parents' = m.parents
    /\ build' = [build EXCEPT !.pc = IF m.exc = "none" THEN pc ELSE "raised",
                              !.pass = pc,
                              !.dj = m.dj, !.api = m.api,
                              !.calls = m.calls, !.nested = m.nested,
                              !.exc = m.exc, !.msg = m.msg]
    /\ UNCHANGED <<nops, last>>

InitBuild ==
    \E cat \in Catalogs :
        /\ heap = ParsedQueries(cat, FALSE, FALSE)
        /\ parents = ParsedParents(heap)
        /\ nops = 0
        /\ last = Idle
        /\ build = [ pc |-> "parsed", pass |-> "parsed", cat |-> cat,
                     dj |-> PlannedTables(cat), api |-> {}, calls |-> <<>>,
                     nested |-> <<>>, exc |-> "none",
                     msg |-> [node |-> "", dimension |-> "", column |-> ""],
                     depth |-> 0, db |-> 1,
                     tables |-> <<>>, dimension_columns |-> <<>> ]

GetTablesAndDimCols ==
    /\ build.pc = "parsed"
    /\ \E build_plan_depth \in 0..MaxDepth, database \in Databases :
          LET c == _get_tables_and_dim_cols(Machine, build.cat, At.select)
          IN build' = [build EXCEPT !.pc = "collected",
                                    !.pass = "collected",
                                    !.depth = build_plan_depth,
                                    !.db = database,
                                    !.tables = c.tables,
                                    !.dimension_columns = c.dimension_columns]
    /\ UNCHANGED <<heap, parents, nops, last>>

BuildDimensionsOnSelect ==
    /\ build.pc = "collected"
    /\ Store(_build_dimensions_on_select(Machine, build.cat, At.select,
                                         build.dimension_columns,
                                         build.tables, build.depth, 0,
                                         build.db),
             "dimensions")

BuildTablesOnSelect ==
    /\ build.pc = "dimensions"
    /\ Store(_build_tables_on_select(Machine, build.cat, At.select,
                                     build.tables, build.depth, 0, build.db),
             "tables")

NextBuild ==
    \/ GetTablesAndDimCols
    \/ BuildDimensionsOnSelect
    \/ BuildTablesOnSelect

SpecBuild == InitBuild /\ [][NextBuild]_vars
(***************************************************************************)
(* Properties of the rewrite of the top select (SpecBuild).                *)
(***************************************************************************)
\* the text of the name of a Named node, a Name node or a plain string
NameStr(h, n) ==
    LET x == Field(h, n, "name")
    IN IF IsNodeVal(x) THEN Field(h, x.v, "name").v ELSE x.v

\* the names of the namespace of a Named node
NamespaceStrs(h, n) ==
    LET ns == Field(h, n, "_namespace")
    IN IF IsNoneVal(ns) THEN <<>>
       ELSE [i \in 1..Len(Field(h, ns.v, "names").v) |->
                Field(h, Field(h, ns.v, "names").v[i].v, "name").v]

\* the registered physical table of a node in a database
Registered(node, db) ==
    CHOOSE table \in {Revision(build.cat, node).tables[i] : i \in 1..Len(Revision(build.cat, node).tables)} :
        table.database = db

\* n is the source a node resolves to at a build depth: the alias of the
\* node's own select when the node is no source and depth remains, else the
\* physical table registered for the database
ResolvedSource(h, n, cat, node, depth, db) ==
    IF Revision(cat, node).type # "SOURCE" /\ depth > 0
    THEN /\ h[n].cls = "Alias"
         /\ NameStr(h, n) = amenable_name(node)
         /\ Field(h, n, "child") = Field(h, PlanQuery(node), "select")
    ELSE /\ h[n].cls = "Table"
         /\ NameStr(h, n) = Registered(node, db).table
         /\ NamespaceStrs(h, n) =
                [i \in 1..Len(SelectSeq(<<Registered(node, db).catalog,
                                          Registered(node, db).schema_>>,
                                        LAMBDA s : ~IsNoneVal(s))) |->
                    SelectSeq(<<Registered(node, db).catalog,
                                Registered(node, db).schema_>>,
                              LAMBDA s : ~IsNoneVal(s))[i].v]

\* the dimensions that need a join, in the order they are resolved
NeedJoin ==
    SelectSeq(build.dimension_columns,
              LAMBDA e : ~\E t \in 1..Len(build.tables) : build.tables[t].key = e.key)

\* the declared columns of a node that are tagged with a dimension
Referencing(cat, table_node, dim_node) ==
    SelectSeq(Revision(cat, table_node).columns,
              LAMBDA col : col.dimension = VStr(dim_node))

\* the joins the pass has appended to the FROM of the top select
Appended ==
    LET before == Len(Field(ParsedQueries(build.cat, FALSE, FALSE), At.from_, "joins").v)
        joins == Field(heap, At.from_, "joins").v
    IN [i \in 1..(Len(joins) - before) |-> joins[before + i].v]

\* the joins to expect: for every dimension that needs a join, one for
\* every directly-joined node that declares a column tagged with it
RECURSIVE ExpectedJoins(_)
ExpectedJoins(dims) ==
    IF dims = <<>> THEN <<>>
    ELSE LET dim == Head(dims).key
             referencing == SelectSeq(build.tables,
                 LAMBDA e : Referencing(build.cat, e.key, dim) # <<>>)
         IN [i \in 1..Len(referencing) |->
                [dim |-> dim, node |-> referencing[i].key]]
            \o ExpectedJoins(Tail(dims))

\* the operands of a conjunction, left to right; a node that is no AND is
\* its own single operand
RECURSIVE Conjuncts(_, _)
Conjuncts(h, n) ==
    IF h[n].cls = "BinaryOp" /\ Field(h, n, "op") = VEnum("BinaryOpKind", "And")
       /\ IsNodeVal(Field(h, n, "left")) /\ IsNodeVal(Field(h, n, "right"))
    THEN Conjuncts(h, Field(h, n, "left").v)
         \o Conjuncts(h, Field(h, n, "right").v)
    ELSE <<n>>

\* C11: after dimension resolution, every Column that pointed at the
\* placeholder Table of a dimension that is not directly joined has .table
\* equal to the source the dimension was resolved to: the aliased subquery
\* at depth > 0, the physical table at depth 0.
C11_DimensionColumnsRebound ==
    build.pc = "dimensions" =>
        \A i \in 1..Len(NeedJoin) :
            \A j \in 1..Len(NeedJoin[i].val) :
                LET table == Field(heap, NeedJoin[i].val[j], "_table")
                IN /\ IsNodeVal(table)
                   /\ ResolvedSource(heap, table.v, build.cat, NeedJoin[i].key,
                                     build.depth, build.db)

\* C12: for each dimension that needs a join, dimension resolution appends
\* exactly one LEFT OUTER join per directly-joined node that declares a
\* column tagged with the dimension, its ON condition the AND of all the
\* join-key equalities of that node; a directly-joined node with no such
\* column contributes no join and the resolution completes without error.
C12_JoinPerReferencingTable ==
    (build.pass = "dimensions" /\ build.exc # "DJException") =>
        /\ build.exc = "none"
        /\ Len(Appended) = Len(ExpectedJoins(NeedJoin))
        /\ \A i \in 1..Len(Appended) :
              LET join == Appended[i]
                  e == ExpectedJoins(NeedJoin)[i]
              IN /\ heap[join].cls = "Join"
                 /\ Field(heap, join, "kind") = VEnum("JoinKind", "LeftOuter")
                 /\ Len(Conjuncts(heap, Field(heap, join, "on").v))
                        = Len(Get(build.tables, e.node))
                          * Len(Referencing(build.cat, e.node, e.dim))

\* q is the equality <table>.<col.name> = <source>.<join column or id>
IsJoinKey(h, q, table, col, source) ==
    /\ h[q].cls = "BinaryOp"
    /\ Field(h, q, "op") = VEnum("BinaryOpKind", "Eq")
    /\ IsNodeVal(Field(h, q, "left"))
    /\ IsNodeVal(Field(h, q, "right"))
    /\ LET left == Field(h, q, "left").v
           right == Field(h, q, "right").v
       IN /\ h[left].cls = "Column"
          /\ NameStr(h, left) = col.name
          /\ Field(h, left, "_table") = VNode(table)
          /\ h[right].cls = "Column"
          /\ NameStr(h, right) = (IF IsNoneVal(col.dimension_column) THEN "id"
                                  ELSE col.dimension_column.v)
          /\ Field(h, right, "_table") = VNode(source)

\* the comparisons of two columns below an ON condition
Equalities(h, on) ==
    {n \in {NodeFlatten(h, on)[i] : i \in 1..Len(NodeFlatten(h, on))} :
        /\ h[n].cls = "BinaryOp"
        /\ \A i \in 1..Len(children(h, n)) :
              h[children(h, n)[i]].cls = "Column"}

\* C13: the relation of every synthesized Join is the resolved source of
\* the dimension, and each of its join-key equalities compares the column
\* col.name of the referencing table with the column col.dimension_column,
\* or id when none is declared, of that source.
C13_JoinKeyEquality ==
    (build.pass = "dimensions" /\ build.exc = "none") =>
        \A i \in 1..Len(Appended) :
            LET join == Appended[i]
                e == ExpectedJoins(NeedJoin)[i]
                source == Field(heap, join, "table")
                keys == Referencing(build.cat, e.node, e.dim)
                ast_tables == Get(build.tables, e.node)
            IN /\ IsNodeVal(source)
               /\ ResolvedSource(heap, source.v, build.cat, e.dim,
                                 build.depth, build.db)
               /\ \A t \in 1..Len(ast_tables), c \in 1..Len(keys) :
                     \E q \in Equalities(heap, Field(heap, join, "on").v) :
                         IsJoinKey(heap, q, ast_tables[t], keys[c], source.v)
               /\ \A q \in Equalities(heap, Field(heap, join, "on").v) :
                     \E t \in 1..Len(ast_tables), c \in 1..Len(keys) :
                         IsJoinKey(heap, q, ast_tables[t], keys[c], source.v)

\* a directly-joined node has a column tagged with dim that declares no
\* join column while dim has no column id
MissingKey(cat, tables, dim, node, column) ==
    /\ \E t \in 1..Len(tables) : tables[t].key = node
    /\ \E i \in 1..Len(Revision(cat, node).columns) :
          /\ Revision(cat, node).columns[i].name = column
          /\ Revision(cat, node).columns[i].dimension = VStr(dim)
          /\ IsNoneVal(Revision(cat, node).columns[i].dimension_column)
    /\ ~\E i \in 1..Len(Revision(cat, dim).columns) : Revision(cat, dim).columns[i].name = "id"

AllColumnNames == {"amount", "user_id", "alt_id", "day_id"}

\* C14: dimension resolution raises DJException, naming the node, the
\* dimension and the column, exactly when a directly-joined node has a
\* column tagged with a dimension that needs a join, the column declares no
\* join column and the dimension has no column id; no join for that
\* dimension has been appended when it is raised.
C14_MissingJoinKeyRaises ==
    build.pass = "dimensions" =>
        /\ build.exc = "DJException" <=>
              \E i \in 1..Len(NeedJoin), j \in 1..Len(build.tables),
                 column \in AllColumnNames :
                  MissingKey(build.cat, build.tables, NeedJoin[i].key,
                             build.tables[j].key, column)
        /\ build.exc = "DJException" =>
              /\ \E i \in 1..Len(NeedJoin) :
                    NeedJoin[i].key = build.msg.dimension
              /\ MissingKey(build.cat, build.tables, build.msg.dimension,
                            build.msg.node, build.msg.column)
              /\ \A i \in 1..Len(Appended) :
                    ~ResolvedSource(heap, Field(heap, Appended[i], "table").v,
                                    build.cat, build.msg.dimension,
                                    build.depth, build.db)
\* the placeholder Tables collected before the passes
Placeholders ==
    UNION {{build.tables[i].val[j] : j \in 1..Len(build.tables[i].val)} :
              i \in 1..Len(build.tables)}

\* a field of n, or an element of a list field of n, is the node t
Refers(h, n, t) ==
    \E f \in 1..Len(h[n].fld) :
        \/ h[n].fld[f] = VNode(t)
        \/ /\ h[n].fld[f].k = "list"
           /\ \E i \in 1..Len(h[n].fld[f].v) : h[n].fld[f].v[i] = VNode(t)

C17_NestedBuildsDescend ==
    /\ Len(build.calls) = Len(build.nested)
    /\ \A i \in 1..Len(build.calls) :
          LET c == build.calls[i]
              n == build.nested[i]
          IN /\ n.from > 0
             /\ c.depth = n.from - 1
             /\ c.depth >= 0
             /\ Revision(build.cat, n.node).type # "SOURCE"
             /\ c.query = PlanQuery(n.node)
             /\ c.level = n.level
             /\ c.level >= 1
             /\ c.level <= build.depth
             /\ c.depth = build.depth - c.level

\* a rewrite started two levels up has nested twice and finished at depth 0
C17_Witness ==
    /\ build.pc = "tables"
    /\ \E i \in 1..Len(build.calls) :
          build.calls[i].level = 2 /\ build.calls[i].depth = 0
(***************************************************************************)
(* add_filters_and_aggs_to_query_ast: the filters and the group-by         *)
(* expressions of the caller, parsed on their own and spliced into the     *)
(* top query.                                                              *)
(***************************************************************************)
MaxFilters == 2

MaxAggs == 2

\* the filter and group-by strings of the model, by what the parser makes
\* of them: a filter is <column> = <column or literal>, a group-by
\* expression is a list of columns; s.region is region in the namespace s
Fragments ==
    LET Col(ns, name) == [k |-> "column", ns |-> ns, name |-> name]
        Lit(value) == [k |-> "literal", value |-> value]
    IN [ filters |->
             { [text |-> "region = 'EU'",
                left |-> Col("", "region"), right |-> Lit("EU")],
               [text |-> "s.region = amount",
                left |-> Col("s", "region"), right |-> Col("", "amount")],
               [text |-> "user_id = 'u'",
                left |-> Col("", "user_id"), right |-> Lit("u")] },
         aggs |->
             { [text |-> "region", terms |-> <<Col("", "region")>>],
               [text |-> "day, amount",
                terms |-> <<Col("", "day"), Col("", "amount")>>] } ]

\* parse(f"select * where {filter_}") and parse(f"select * group by {agg}"):
\* the Query of the fragment, its Select the node before it
parse(m, fragment) ==
    LET Term(mm, t) ==
            LET n == Len(mm.heap)
            IN IF t.k = "literal" THEN Alloc(mm, "String", <<VStr(t.value)>>)
               ELSE IF t.ns = ""
               THEN Alloc(Alloc(mm, "Name", <<VStr(t.name), VStr("")>>),
                          "Column", <<VNode(n + 1), VNone, VNone>>)
               ELSE Alloc(Alloc(Alloc(Alloc(mm,
                          "Name", <<VStr(t.name), VStr("")>>),
                          "Name", <<VStr(t.ns), VStr("")>>),
                          "Namespace", <<VList(<<VNode(n + 2)>>)>>),
                          "Column", <<VNode(n + 1), VNode(n + 3), VNone>>)
        RECURSIVE Terms(_, _, _)
        Terms(mm, ts, done) ==
            LET Parsed(m1) ==
                    Terms(m1, Tail(ts), Append(done, VNode(Len(m1.heap))))
            IN IF ts = <<>> THEN [m |-> mm, terms |-> done]
               ELSE Parsed(Term(mm, Head(ts)))
        SelectOf(mm, group_by, where) ==
            Alloc(Alloc(Alloc(mm, "Wildcard", <<VNone>>),
                        "Select",
                        <<VBool(FALSE), VNone, VList(group_by), VNone,
                          VList(<<VNode(Len(mm.heap) + 1)>>), where, VNone>>),
                  "Query", <<VNode(Len(mm.heap) + 2), VList(<<>>)>>)
        GroupBy(t) == SelectOf(t.m, t.terms, VNone)
        Where(m1, m2) ==
            SelectOf(Alloc(m2, "BinaryOp",
                           <<VNode(Len(m1.heap)), VEnum("BinaryOpKind", "Eq"),
                             VNode(Len(m2.heap))>>),
                     <<>>, VNode(Len(m2.heap) + 1))
        Right(m1) == Where(m1, Term(m1, fragment.right))
    IN IF "terms" \in DOMAIN fragment
       THEN GroupBy(Terms(m, fragment.terms, <<>>))
       ELSE Right(Term(m, fragment.left))

\* a list extended at the front
ExtendFront(xs, ys) == ys \o xs

\* list += list
Extend(xs, ys) == xs \o ys

\* lines 236-277; order is the order in which set(projection_addition) is
\* iterated.  Returns the machine with the set, the parsed conditions and
\* the parsed group-by terms.
add_filters_and_aggs_to_query_ast(m, query, filters, aggs, order) ==
    LET select == Field(m.heap, query, "select").v
        where == Field(m.heap, select, "where")
        \* lines 251-257
        RECURSIVE LoopFilters(_, _, _, _)
        LoopFilters(mm, fs, filter_asts, projection_addition) ==
            LET Parsed(m1) ==
                    LoopFilters(m1, Tail(fs),
                        Append(filter_asts,
                               Field(m1.heap, Len(m1.heap) - 1, "where").v),
                        Extend(projection_addition,
                               find_all(m1.heap, Len(m1.heap) - 1, "Column")))
            IN IF fs = <<>>
               THEN [m |-> mm, asts |-> filter_asts,
                     addition |-> projection_addition]
               ELSE Parsed(parse(mm, Head(fs)))
        \* lines 258-265
        SetWhere(r) ==
            [r.m EXCEPT !.heap = SetField(@, select, "where", VNode(r.ast))]
        \* lines 268-274
        RECURSIVE LoopAggs(_, _, _, _)
        LoopAggs(mm, as, terms, projection_addition) ==
            LET Parsed(m2) ==
                    LET temp_select == Len(m2.heap) - 1
                        group_by == Field(m2.heap, temp_select, "group_by").v
                    IN LoopAggs(
                           [m2 EXCEPT !.heap =
                               SetField(@, select, "group_by",
                                   VList(Extend(Field(@, select,
                                                      "group_by").v,
                                                group_by)))],
                           Tail(as), terms \o group_by,
                           Extend(projection_addition,
                                  find_all(m2.heap, temp_select, "Column")))
            IN IF as = <<>>
               THEN [m |-> mm, terms |-> terms,
                     addition |-> projection_addition]
               ELSE Parsed(parse(mm, Head(as)))
        \* col.set_api_column(True).copy()
        RECURSIVE Copies(_, _, _)
        Copies(mm, cols, done) ==
            LET n == Len(mm.heap)
                col == Head(cols)
                name == Field(mm.heap, col, "name").v
                ns == Field(mm.heap, col, "_namespace")
                Copied(m5) ==
                    Copies([m5 EXCEPT !.api = @ \cup {col, Len(m5.heap)}],
                           Tail(cols), Append(done, VNode(Len(m5.heap))))
            IN IF cols = <<>> THEN [m |-> mm, copies |-> done]
               ELSE IF IsNoneVal(ns)
               THEN Copied(Alloc(Alloc(mm, "Name", mm.heap[name].fld),
                                 "Column",
                                 <<VNode(n + 1), VNone,
                                   Field(mm.heap, col, "_table")>>))
               ELSE Copied(Alloc(Alloc(Alloc(Alloc(mm,
                                 "Name", mm.heap[name].fld),
                                 "Name",
                                 mm.heap[Field(mm.heap, ns.v,
                                               "names").v[1].v].fld),
                                 "Namespace", <<VList(<<VNode(n + 2)>>)>>),
                                 "Column",
                                 <<VNode(n + 1), VNode(n + 3),
                                   Field(mm.heap, col, "_table")>>))
        \* lines 275-277
        Projected(f, g, c) ==
            [ m |-> [c.m EXCEPT !.heap =
                        SetField(@, select, "projection",
                            VList(Extend(Field(@, select, "projection").v,
                                         c.copies)))],
              columns |-> SetUpdate(g.m.heap, {}, g.addition),
              wheres |-> IF IsNoneVal(where) \/ filters = <<>> THEN f.asts
                         ELSE Tail(f.asts),
              terms |-> g.terms,
              addition |-> g.addition ]
        Grouped(f, g) == Projected(f, g, Copies(g.m, order, <<>>))
        Filtered(f) ==
            Grouped(f, LoopAggs(IF filters = <<>> THEN m
                                ELSE SetWhere(ReduceAnd(f.m, f.asts)),
                                aggs, <<>>, f.addition))
    IN Filtered(IF filters = <<>>
                THEN [m |-> m, asts |-> <<>>, addition |-> <<>>]
                ELSE LoopFilters(m, filters,
                                 IF IsNoneVal(where) THEN <<>>
                                 ELSE <<where.v>>,
                                 <<>>))

\* the node whose query is compiled, and its parsed query, which may have a
\* WHERE and a GROUP BY of its own
InitNode ==
    \E cat \in {c \in Catalogs :
                   /\ c.joined = "none" /\ ~c.day /\ c.events = "SOURCE"
                   /\ c.orders_columns
                          = <<[name |-> "amount", dimension |-> VNone,
                               dimension_column |-> VNone],
                              [name |-> "user_id",
                               dimension |-> VStr("dim.users"),
                               dimension_column |-> VNone]>>
                   /\ Len(c.events_columns) = 1
                   /\ c.events_columns[1].name = "amount"
                   /\ Len(c.users_columns) = 2},
       where \in BOOLEAN, group_by \in BOOLEAN :
        /\ heap = ParsedQueries(cat, where, group_by)
        /\ parents = ParsedParents(heap)
        /\ nops = 0
        /\ last = Idle
        /\ build = [ pc |-> "start", pass |-> "start", cat |-> cat,
                     dj |-> PlannedTables(cat), api |-> {}, calls |-> <<>>,
                     nested |-> <<>>, exc |-> "none",
                     msg |-> [node |-> "", dimension |-> "", column |-> ""],
                     filters |-> <<>>, aggs |-> <<>>, wheres |-> <<>>,
                     terms |-> <<>>, addition |-> <<>>, order |-> <<>>,
                     where |-> where, group_by |-> group_by,
                     path |-> "", database |-> 0, database_id |-> 0,
                     top_dbs |-> {}, cost |-> <<>>, depth |-> 0,
                     candidates |-> {}, optimized |-> 0 ]

\* a call of add_filters_and_aggs_to_query_ast on the parsed query
AddFiltersAndAggs ==
    /\ build.pc = "start"
    /\ \E filters \in SeqsUpTo(Fragments.filters, MaxFilters),
          aggs \in SeqsUpTo(Fragments.aggs, MaxAggs) :
          LET columns == add_filters_and_aggs_to_query_ast(
                             Machine, At.query, filters, aggs, <<>>).columns
          IN \E order \in {o \in [1..Cardinality(columns) -> columns] :
                              \A i, j \in DOMAIN o : o[i] = o[j] => i = j} :
                 LET r == add_filters_and_aggs_to_query_ast(
                              Machine, At.query, filters, aggs, order)
                 IN /\ heap' = r.m.heap
                    /\ parents' = r.m.parents
                    /\ build' = [build EXCEPT !.pc = "spliced",
                                              !.pass = "spliced",
                                              !.api = r.m.api,
                                              !.filters = filters,
                                              !.aggs = aggs,
                                              !.wheres = r.wheres,
                                              !.terms = r.terms,
                                              !.addition = r.addition,
                                              !.order = order]
    /\ UNCHANGED <<nops, last>>

SpecFilters == InitNode /\ [][AddFiltersAndAggs]_vars
(***************************************************************************)
(* Properties of the splicing of filters and group-by expressions          *)
(* (SpecFilters).                                                          *)
(***************************************************************************)
\* the top query as it was parsed
AsParsed == ParsedQueries(build.cat, build.where, build.group_by)

\* n is the left-nested AND of the operands: ((o1 AND o2) AND o3) ...
RECURSIVE LeftNested(_, _, _)
LeftNested(h, n, operands) ==
    IF Len(operands) = 1 THEN n = operands[1]
    ELSE /\ h[n].cls = "BinaryOp"
         /\ Field(h, n, "op") = VEnum("BinaryOpKind", "And")
         /\ Field(h, n, "right") = VNode(operands[Len(operands)])
         /\ IsNodeVal(Field(h, n, "left"))
         /\ LeftNested(h, Field(h, n, "left").v,
                       SubSeq(operands, 1, Len(operands) - 1))

\* the written form of a column: its namespace and its name
ColumnText(h, c) == <<NamespaceStrs(h, c), NameStr(h, c)>>

\* the written form of a column of a fragment
TermText(t) == <<IF t.ns = "" THEN <<>> ELSE <<t.ns>>, t.name>>

\* C18: with filters, the WHERE becomes the left-nested AND of the existing
\* WHERE, if any, followed by the parsed filters in the order of the
\* caller; with no existing WHERE and a single filter it is that filter.
C18_WhereIsLeftNestedAnd ==
    (build.pc = "spliced" /\ build.filters # <<>>) =>
        LET existing == Field(AsParsed, At.select, "where")
            where == Field(heap, At.select, "where")
        IN /\ Len(build.wheres) = Len(build.filters)
           /\ \A i \in 1..Len(build.wheres) :
                 /\ heap[build.wheres[i]].cls = "BinaryOp"
                 /\ Field(heap, build.wheres[i], "op")
                        = VEnum("BinaryOpKind", "Eq")
                 /\ ColumnText(heap, Field(heap, build.wheres[i], "left").v)
                        = TermText(build.filters[i].left)
           /\ IsNodeVal(where)
           /\ LeftNested(heap, where.v,
                         (IF IsNoneVal(existing) THEN <<>>
                          ELSE <<existing.v>>) \o build.wheres)

\* C19: every Column referenced by a filter or a group-by fragment appears
\* in the projection, after the original entries, which keep their order,
\* once per distinct column, and every appended column is marked as added
\* by the API.
C19_ReferencedColumnsProjected ==
    build.pc = "spliced" =>
        LET original == Field(AsParsed, At.select, "projection").v
            projection == Field(heap, At.select, "projection").v
            appended == [i \in 1..(Len(projection) - Len(original)) |->
                            projection[Len(original) + i].v]
        IN /\ Len(projection) >= Len(original)
           /\ SubSeq(projection, 1, Len(original)) = original
           /\ \A i \in 1..Len(build.addition) :
                 \E j \in 1..Len(appended) :
                     /\ heap[appended[j]].cls = "Column"
                     /\ ColumnText(heap, appended[j])
                            = ColumnText(heap, build.addition[i])
           /\ \A j \in 1..Len(appended) :
                 /\ appended[j] \in build.api
                 /\ \E i \in 1..Len(build.addition) :
                        ColumnText(heap, appended[j])
                            = ColumnText(heap, build.addition[i])
                 /\ \A k \in 1..Len(appended) :
                        ColumnText(heap, appended[j])
                            = ColumnText(heap, appended[k]) => j = k

\* the terms of the group-by expressions, one after the other
RECURSIVE FlatTerms(_)
FlatTerms(aggs) ==
    IF aggs = <<>> THEN <<>> ELSE Head(aggs).terms \o FlatTerms(Tail(aggs))

\* C20: with group-by expressions, the terms of each parsed fragment are
\* appended to the end of the GROUP BY list in the order of the caller,
\* the existing terms first and unchanged.
C20_GroupByAppended ==
    (build.pc = "spliced" /\ build.aggs # <<>>) =>
        LET original == Field(AsParsed, At.select, "group_by").v
            group_by == Field(heap, At.select, "group_by").v
            terms == FlatTerms(build.aggs)
        IN /\ Len(group_by) = Len(original) + Len(terms)
           /\ SubSeq(group_by, 1, Len(original)) = original
           /\ \A i \in 1..Len(original) :
                 heap[original[i].v] = AsParsed[original[i].v]
           /\ \A i \in 1..Len(terms) :
                 /\ heap[group_by[Len(original) + i].v].cls = "Column"
                 /\ ColumnText(heap, group_by[Len(original) + i].v)
                        = TermText(terms[i])
                 /\ group_by[Len(original) + i] = build.terms[i]

\* two different group-by expressions appended to an existing GROUP BY
C20_Witness ==
    /\ build.pc = "spliced"
    /\ build.group_by
    /\ Len(build.aggs) = 2
    /\ build.aggs[1] # build.aggs[2]
    /\ Len(Field(heap, At.select, "group_by").v) > 2
(***************************************************************************)
(* build_node_for_database: the query of the node is parsed, the filters   *)
(* and group-by expressions are spliced in, a database and a depth are     *)
(* chosen, and the query is rewritten for them, unless one of the          *)
(* databases that hold the node itself is taken.  The databases of the     *)
(* node's own tables and the costs are read from the catalog during the    *)
(* call; 0 stands for no database_id.  The optimizers of the build plan    *)
(* are taken by what they return: candidates are the databases that can    *)
(* serve the plan at some depth, optimize_level_by_database_id returns the *)
(* requested one of them or fails, optimize_level_by_cost one of least     *)
(* cost among them.                                                        *)
(***************************************************************************)
MaxCost == 2

\* optimize_level_by_database_id: the requested database when the plan can
\* be served by it at some depth, and a failure (no database) otherwise
optimize_level_by_database_id(candidates, database_id) ==
    {database \in candidates : database = database_id}

\* optimize_level_by_cost: a database of least cost among the candidates
optimize_level_by_cost(candidates, cost) ==
    {database \in candidates : \A d \in candidates : cost[database] <= cost[d]}

\* a top database other than the requested one
TopDbAny(top_dbs, database_id) == top_dbs

\* lines 303-305: the top databases with the requested id
TopDbById(top_dbs, database_id) ==
    {top_db \in top_dbs : top_db = database_id}

BuildNodeForDatabase ==
    /\ build.pc = "start"
    /\ UNCHANGED <<nops, last>>
    /\ \E has_query \in BOOLEAN,
          filters \in SeqsUpTo(Fragments.filters, 1),
          aggs \in SeqsUpTo(Fragments.aggs, 1),
          node_dbs \in SUBSET Databases,
          candidates \in SUBSET Databases,
          database_id \in 0..(Cardinality(Databases) + 1),
          cost \in [Databases -> 1..MaxCost],
          build_plan_depth \in 0..MaxDepth,
          database \in Databases,
          returned \in {0} \cup Databases :
          LET \* lines 296-300
              top_dbs == IF filters # <<>> \/ aggs # <<>> THEN {}
                         ELSE node_dbs
              \* lines 302-316
              path == IF ~has_query THEN "no query"
                      ELSE IF database_id # 0
                      THEN IF TopDbById(top_dbs, database_id) # {}
                           THEN "top_db by id"
                           ELSE IF optimize_level_by_database_id(
                                       candidates, database_id) = {}
                           THEN "optimize_level_by_database_id"
                           ELSE "built"
                      ELSE IF \E top_db \in top_dbs :
                                  cost[top_db] <= cost[database]
                           THEN "top_db by cost"
                           ELSE "built"
          IN \* filters together with aggs are spliced under SpecFilters
             /\ filters = <<>> \/ aggs = <<>>
             \* what the call does not read is held at one value
             /\ ~has_query => filters = <<>> /\ aggs = <<>> /\ database_id = 0
             /\ (~has_query \/ filters # <<>> \/ aggs # <<>>) => node_dbs = {}
             /\ (~has_query \/ database_id # 0) => \A d \in Databases : cost[d] = 1
             /\ path # "built" => build_plan_depth = 0
             /\ ~has_query => candidates = {}
             /\ path = "top_db by id" => candidates = {}
             \* lines 307-310 and 313
             /\ CASE path = "built" /\ database_id # 0 ->
                         database \in optimize_level_by_database_id(
                                          candidates, database_id)
                  [] has_query /\ database_id = 0 ->
                         database \in optimize_level_by_cost(candidates, cost)
                  [] OTHER -> database = 1
             \* lines 303-305, 314-316, 320-323
             /\ CASE path = "built" -> returned = database
                  [] path = "top_db by id" ->
                         returned \in TopDbById(top_dbs, database_id)
                  [] path = "top_db by cost" ->
                         /\ returned \in top_dbs
                         /\ cost[returned] <= cost[database]
                  [] OTHER -> returned = 0
             /\ LET \* lines 305, 316, 320-323, and the raises
                    Returned(m) ==
                        /\ heap' = m.heap
                        /\ parents' = m.parents
                        /\ build' = [build EXCEPT
                                        !.pc = IF m.exc = "none"
                                               THEN "returned" ELSE "raised",
                                        !.pass = "returned",
                                        !.dj = m.dj, !.api = m.api,
                                        !.calls = m.calls,
                                        !.nested = m.nested,
                                        !.exc = m.exc, !.msg = m.msg,
                                        !.path = path,
                                        !.database = returned,
                                        !.depth = build_plan_depth,
                                        !.filters = filters, !.aggs = aggs,
                                        !.top_dbs = top_dbs,
                                        !.candidates = candidates,
                                        !.optimized = database,
                                        !.database_id = database_id,
                                        !.cost = cost]
                    \* lines 301-319
                    Planned(query) ==
                        CASE path = "built" ->
                                 Returned(QueryBuild(query, build.cat, At.query,
                                                   build_plan_depth, 0,
                                                   database))
                          [] path \in {"top_db by id", "top_db by cost"} ->
                                 Returned(query)
                          [] OTHER ->
                                 Returned([query EXCEPT !.exc = "Exception"])
                    \* the orders in which the set of line 276 is iterated
                    Orders(columns) ==
                        {o \in [1..Cardinality(columns) -> columns] :
                            \A i, j \in DOMAIN o : o[i] = o[j] => i = j}
                IN \E order \in Orders(add_filters_and_aggs_to_query_ast(
                                        Machine, At.query, filters, aggs,
                                        <<>>).columns) :
                       Planned(add_filters_and_aggs_to_query_ast(
                                   Machine, At.query, filters, aggs, order).m)

\* the nodes a compilation may be asked for: orders is a source or a
\* transform, its query selects country of users and day of dates or not,
\* users and dates may lack the key id that a column tagged without a join
\* column needs
InitCompile ==
    \E cat \in {c \in Catalogs :
                   /\ c.joined = "none" /\ c.events = "SOURCE"
                   /\ Len(c.orders_columns) = 2
                   /\ c.orders_columns[1].dimension_column = VNone
                          => c.orders_columns[1].dimension = VNone
                   /\ c.orders_columns[2].dimension_column = VNone
                   /\ Len(c.events_columns) = 1
                   /\ c.events_columns[1].name = "amount"} :
        /\ heap = ParsedQueries(cat, FALSE, FALSE)
        /\ parents = ParsedParents(heap)
        /\ nops = 0
        /\ last = Idle
        /\ build = [ pc |-> "start", pass |-> "start", cat |-> cat,
                     dj |-> PlannedTables(cat), api |-> {}, calls |-> <<>>,
                     nested |-> <<>>, exc |-> "none",
                     msg |-> [node |-> "", dimension |-> "", column |-> ""],
                     filters |-> <<>>, aggs |-> <<>>, wheres |-> <<>>,
                     terms |-> <<>>, addition |-> <<>>, order |-> <<>>,
                     where |-> FALSE, group_by |-> FALSE,
                     path |-> "", database |-> 0, database_id |-> 0,
                     top_dbs |-> {}, cost |-> <<>>, depth |-> 0,
                     candidates |-> {}, optimized |-> 0 ]

SpecNode == InitCompile /\ [][BuildNodeForDatabase]_vars

\* the Tables and Aliases that the returned query reads from
Relations(h, query) ==
    {NodeFlatten(h, query)[i] : i \in 1..Len(NodeFlatten(h, query))}

\* C16: every Query returned by a successful build_node_for_database, on
\* every return path, has had every logical Table replaced by a physical
\* reference for the returned database: a physical table of that database
\* or an aliased subquery over such tables.
C16_ReturnedQueryIsPhysical ==
    build.pc = "returned" =>
        \A n \in Relations(heap, At.query) :
            heap[n].cls = "Table" =>
                /\ n \notin DOMAIN build.dj
                /\ \E node \in {"orders", "events", "dim.users", "dim.dates",
                               "raw"} :
                       NameStr(heap, n)
                           = Registered(node, build.database).table
(***************************************************************************)
(* The database build_node_for_database returns.                           *)
(***************************************************************************)
\* C21: when no database id is given, the database returned by a successful
\* build_node_for_database costs no more than the database the cost
\* optimizer selected and no more than any top-level database, that is any
\* database on which the node itself has a physical table.
C21_ReturnsMinimumCost ==
    (build.pc = "returned" /\ build.database_id = 0) =>
        /\ build.cost[build.database] <= build.cost[build.optimized]
        /\ \A top_db \in build.top_dbs :
               build.cost[build.database] <= build.cost[top_db]

\* C22: when a database id is given, a successful build_node_for_database
\* returns the database with that id and no other; when the id is the id of
\* no top-level database and of no candidate database of the plan at any
\* depth, the call fails.
C22_PinnedDatabase ==
    (build.pc \in {"returned", "raised"} /\ build.database_id # 0) =>
        /\ build.pc = "returned" => build.database = build.database_id
        /\ (/\ build.database_id \notin build.top_dbs
            /\ build.database_id \notin build.candidates)
               => build.pc = "raised"

\* a database pinned while the node has a table on every database
C22_Witness ==
    /\ build.pc = "returned"
    /\ build.path = "top_db by id"
    /\ build.top_dbs = Databases
    /\ build.database = build.database_id

\* the joins of the FROM of the top select
TopJoins(h) == Field(h, At.from_, "joins").v

ChildSlots(h, n) ==
    LET names == FieldNames(h[n].cls)
        open == {f \in 1..Len(names) : SubSeq(names[f], 1, 1) # "_"}
    IN {<<f, 0>> : f \in {g \in open : h[n].fld[g].k = "node"}}
       \cup UNION {{<<f, i>> : i \in {j \in 1..Len(h[n].fld[f].v) :
                                         h[n].fld[f].v[j].k = "node"}} :
                      f \in {g \in open : h[n].fld[g].k = "list"}}

\* the slots in declaration order and, within a list, in list order
SlotsInOrder(h, n) ==
    LET S == ChildSlots(h, n)
        Rank(s) == Cardinality({t \in S : \/ t[1] < s[1]
                                          \/ t[1] = s[1] /\ t[2] <= s[2]})
    IN [k \in 1..Cardinality(S) |-> CHOOSE s \in S : Rank(s) = k]

\* C24: children(node) is the sequence of the nodes held by the fields of
\* the node whose name has no leading underscore, field by field in
\* declaration order and list fields element by element, None and values
\* that are no nodes left out; it is computed from the fields as they are
\* at the call, so that a node appended to a list field by the rewrite (a
\* Join to From.joins) is among the children afterwards.
C24_ChildrenAreOpenFieldsInOrder ==
    \A n \in Nodes(heap) :
        children(heap, n) =
            [k \in 1..Len(SlotsInOrder(heap, n)) |->
                LET s == SlotsInOrder(heap, n)[k]
                IN IF s[2] = 0 THEN heap[n].fld[s[1]].v
                   ELSE heap[n].fld[s[1]].v[s[2]].v]

\* the dimensions pass has appended a Join to the FROM of the top select
\* and the children of the From have grown by it
C24_Witness ==
    /\ build.pc = "dimensions"
    /\ Len(children(heap, At.from_))
           > Len(children(ParsedQueries(build.cat, FALSE, FALSE), At.from_))
    /\ heap[children(heap, At.from_)[Len(children(heap, At.from_))]].cls
           = "Join"
(***************************************************************************)
(* Namespace.to_column and Namespace.to_table.                             *)
(***************************************************************************)
MaxNames == 3

\* the node built around the popped name: parents are cleared on the name,
\* the new node is made a parent of its children, and the namespace is
\* attached when names remain ("attach" is the truth of self.names)
Converted(h, par, ns, cls, fld, attach) ==
    LET Made(h2) ==
            [exc |-> "none",
             heap |-> IF attach THEN add_namespace(h2, Len(h2), VNode(ns))
                      ELSE h2,
             parents |-> add_self_as_parent(
                             h2, Append(clear_parents(par, fld[1].v), {}),
                             Len(h2)),
             ret |-> VNode(Len(h2))]
    IN Made(Append(SetField(h, ns, "names",
                            VList(SubSeq(Field(h, ns, "names").v, 1,
                                         Len(Field(h, ns, "names").v) - 1))),
                   [cls |-> cls, fld |-> fld]))

NamespaceIsEmpty(h, par) ==
    [exc |-> "DJParseException", heap |-> h, parents |-> par, ret |-> VNone]

LastName(h, ns) == Field(h, ns, "names").v[Len(Field(h, ns, "names").v)]

\* to_column had it attached the namespace whatever names remain
to_columnAlways(h, par, ns) ==
    IF Field(h, ns, "names").v = <<>> THEN NamespaceIsEmpty(h, par)
    ELSE Converted(h, par, ns, "Column", <<LastName(h, ns), VNone, VNone>>,
                   TRUE)

\* Namespace.to_column
to_column(h, par, ns) ==
    IF Field(h, ns, "names").v = <<>> THEN NamespaceIsEmpty(h, par)
    ELSE Converted(h, par, ns, "Column", <<LastName(h, ns), VNone, VNone>>,
                   Len(Field(h, ns, "names").v) > 1)

\* Namespace.to_table
to_table(h, par, ns) ==
    IF Field(h, ns, "names").v = <<>> THEN NamespaceIsEmpty(h, par)
    ELSE Converted(h, par, ns, "Table", <<LastName(h, ns), VNone, VList(<<>>)>>,
                   Len(Field(h, ns, "names").v) > 1)

\* A namespace of up to MaxNames names as the parser builds it: the names
\* first, the namespace last, its parents compiled or not.
InitNamespace ==
    \E k \in 0..MaxNames, compiled \in BOOLEAN :
        \E strs \in [1..k -> Strs] :
            /\ heap = [i \in 1..(k + 1) |->
                         IF i <= k
                         THEN [cls |-> "Name",
                               fld |-> <<VStr(strs[i]), VStr("")>>]
                         ELSE [cls |-> "Namespace",
                               fld |-> <<VList([j \in 1..k |-> VNode(j)])>>]]
            /\ parents = [i \in 1..(k + 1) |->
                            IF compiled /\ i <= k THEN {k + 1} ELSE {}]
            /\ nops = 0
            /\ last = Idle
            /\ build = NoBuild

\* last keeps the namespace and the names it held when the call was made
Converts(op, ns, r) ==
    /\ heap' = r.heap
    /\ parents' = r.parents
    /\ last' = [op |-> op, args |-> <<ns, Field(heap, ns, "names").v>>,
                ret |-> r.ret, exc |-> r.exc]
    /\ UNCHANGED <<nops, build>>

ToColumn ==
    \E ns \in NodeIds(heap, "Namespace") :
        Converts("to_column", ns, to_column(heap, parents, ns))

ToTable ==
    \E ns \in NodeIds(heap, "Namespace") :
        Converts("to_table", ns, to_table(heap, parents, ns))

SpecNamespace == InitNamespace /\ [][ToColumn \/ ToTable]_vars

\* C25: to_column and to_table on a namespace of n >= 1 names return a
\* Column respectively a Table named by the last name, leave the first
\* n - 1 names in the namespace in order, and attach the namespace to the
\* result exactly when n > 1; on an empty namespace they raise
\* DJParseException and the namespace keeps its (empty) list of names.
C25_NamespaceConversion ==
    last.op \in {"to_column", "to_table"} =>
        LET ns == last.args[1]
            names == last.args[2]
            n == Len(names)
        IN IF n = 0
           THEN /\ last.exc = "DJParseException"
                /\ Field(heap, ns, "names").v = names
           ELSE /\ last.exc = "none"
                /\ heap[last.ret.v].cls =
                       (IF last.op = "to_column" THEN "Column" ELSE "Table")
                /\ Field(heap, last.ret.v, "name") = names[n]
                /\ Field(heap, ns, "names").v = SubSeq(names, 1, n - 1)
                /\ Field(heap, last.ret.v, "_namespace") =
                       (IF n > 1 THEN VNode(ns) ELSE VNone)

C25_Witness ==
    /\ last.op = "to_table"
    /\ Len(last.args[2]) = 1
    /\ \E c \in NodeIds(heap, "Column") :
           /\ Field(heap, c, "_namespace") = VNode(last.args[1])
           /\ Len(Field(heap, last.args[1], "names").v) = 0
(***************************************************************************)
(* Deep comparison and the fields it does not reach (SpecDiff).            *)
(***************************************************************************)
\* the pair holds two nodes of one class whose enum-valued field differs
EnumDiffers(h, pr) ==
    /\ IsNodeVal(pr[1]) /\ IsNodeVal(pr[2])
    /\ h[pr[1].v].cls = h[pr[2].v].cls
    /\ h[pr[1].v].cls \in {"BinaryOp", "UnaryOp", "Join"}
    /\ LET f == IF h[pr[1].v].cls = "Join" THEN "kind" ELSE "op"
       IN Field(h, pr[1].v, f) # Field(h, pr[2].v, f)

\* C26: when two trees hold, at a position the lock-step walk reaches, two
\* BinaryOp, two UnaryOp or two Join nodes of different kind, compare is
\* false and diff reports that pair.
C26_EnumDifferenceDetected ==
    last.op \in {"diff", "compare"} =>
        LET a == last.args[1]
            b == last.args[2]
        IN \A p \in PairPositions(heap, a, b) :
               (/\ EnumDiffers(heap, PairAt(heap, VNode(a), VNode(b), p))
                /\ \A k \in 0..(Len(p) - 1) :
                      ~Mismatch(heap, PairAt(heap, VNode(a), VNode(b),
                                             SubSeq(p, 1, k))))
               => IF last.op = "compare" THEN ~last.ret
                  ELSE \E i \in 1..Len(last.ret) :
                           last.ret[i] = PairAt(heap, VNode(a), VNode(b), p)

\* Two Selects over one FROM and two columns, each with any of the columns
\* or nothing in its group_by and in its projection.
InitSelects ==
    \E d1 \in BOOLEAN, d2 \in BOOLEAN,
       g1 \in Lists({VNode(3), VNode(4)}),
       p1 \in Lists({VNode(3), VNode(4)}),
       g2 \in Lists({VNode(3), VNode(4)}),
       p2 \in Lists({VNode(3), VNode(4)}) :
        /\ heap =
             << [cls |-> "Table", fld |-> <<VStr("a"), VNone, VList(<<>>)>>],
                [cls |-> "From", fld |-> <<VNode(1), VList(<<>>)>>],
                [cls |-> "Column", fld |-> <<VStr("a"), VNone, VNone>>],
                [cls |-> "Column", fld |-> <<VStr("b"), VNone, VNone>>],
                [cls |-> "Select", fld |-> <<VBool(d1), VNode(2), g1, VNone,
                                             p1, VNone, VNone>>],
                [cls |-> "Select", fld |-> <<VBool(d2), VNode(2), g2, VNone,
                                             p2, VNone, VNone>>] >>
        /\ parents = [i \in 1..6 |-> {}]
        /\ nops = 0
        /\ last = Idle
        /\ build = NoBuild

\* comparing the Selects and their parts
SpecSelects == InitSelects /\ [][DiffCall \/ CompareCall \/ Discard]_vars

\* the two Selects of the pair hold a different number of nodes in one of
\* their list fields
ListsDiffer(h, pr) ==
    /\ IsNodeVal(pr[1]) /\ IsNodeVal(pr[2])
    /\ h[pr[1].v].cls = "Select" /\ h[pr[2].v].cls = "Select"
    /\ \E f \in {"group_by", "projection"} :
           Len(Field(h, pr[1].v, f).v) # Len(Field(h, pr[2].v, f).v)

\* C27: two trees that hold, at a position of the lock-step walk, two
\* Selects whose group_by or projection lists differ in length (the same
\* expression in group_by in one and in projection in the other) are not
\* compare-equal, and diff is not empty.
C27_ListFieldDifferenceDetected ==
    last.op \in {"diff", "compare"} =>
        LET a == last.args[1]
            b == last.args[2]
        IN (\E p \in PairPositions(heap, a, b) :
                ListsDiffer(heap, PairAt(heap, VNode(a), VNode(b), p)))
           => IF last.op = "compare" THEN ~last.ret ELSE last.ret # <<>>


(***************************************************************************)
(* Back-references and parent sets (Spec).                                 *)
(***************************************************************************)
\* C28: every Column in the columns list of a Table has that Table as its
\* table (a Table equal to it under ==), after any calls of add_columns and
\* add_table.
C28_BackReferencesConsistent ==
    \A t \in NodeIds(heap, "Table") :
        \A i \in 1..Len(Field(heap, t, "_columns").v) :
            LET c == Field(heap, t, "_columns").v[i].v
            IN /\ IsNodeVal(Field(heap, c, "_table"))
               /\ NodeEq(heap, Field(heap, c, "_table").v, t)

\* A tree of four nodes in which the column (node 1) is shared: two
\* operations over the column (nodes 2 and 3) under one root (node 4).
InitShared ==
    \E s \in Strs,
       o1 \in {"Eq", "And", "Minus", "Not"},
       o2 \in {"Eq", "And", "Minus", "Not"},
       root \in {"Eq", "And", "Between"} :
        LET Owner(o) ==
                IF o \in {"Eq", "And"}
                THEN [cls |-> "BinaryOp",
                      fld |-> <<VNode(1), VEnum("BinaryOpKind", o), VNode(1)>>]
                ELSE [cls |-> "UnaryOp",
                      fld |-> <<VEnum("UnaryOpKind", o), VNode(1)>>]
        IN /\ heap =
                << [cls |-> "Column", fld |-> <<VStr(s), VNone, VNone>>],
                   Owner(o1), Owner(o2),
                   IF root = "Between"
                   THEN [cls |-> "Between",
                         fld |-> <<VNode(1), VNode(2), VNode(3)>>]
                   ELSE [cls |-> "BinaryOp",
                         fld |-> <<VNode(2), VEnum("BinaryOpKind", root),
                                   VNode(3)>>] >>
           /\ parents = [i \in 1..4 |-> {}]
           /\ nops = 0
           /\ last = Idle
           /\ build = NoBuild

\* compiling and clearing the parents of a tree with a shared node
SpecShared == InitShared /\ [][CompileParents \/ ClearParents]_vars

\* the nodes of the tree of r that hold n among their children
Owners(h, r, n) ==
    {m \in {r} \cup Descendants(h, r) :
        \E i \in 1..Len(children(h, m)) : children(h, m)[i] = n}

\* C29: once compile_parents has run on a root (a further call changes
\* nothing), the parent set of every node of the tree holds each node of
\* the tree that has it among its children, so it has as many members as
\* the node has owners in the tree.
C29_EveryOwnerIsParent ==
    \A r \in Nodes(heap) :
        (children(heap, r) # <<>>
            /\ compile_parents(heap, parents, r) = parents)
        => \A n \in Descendants(heap, r) :
               Owners(heap, r, n) \subseteq parents[n]

(***************************************************************************)
(* The projection after filters and group-by expressions (SpecFilters).    *)
(***************************************************************************)
\* C30: after add_filters_and_aggs_to_query_ast no two entries of the
\* projection are the same column: a referenced column that the original
\* projection already selects is not appended again.
C30_NoColumnTwiceInProjection ==
    build.pc = "spliced" =>
        LET projection == Field(heap, At.select, "projection").v
        IN \A i, j \in 1..Len(projection) :
               (/\ heap[projection[i].v].cls = "Column"
                /\ heap[projection[j].v].cls = "Column"
                /\ ColumnText(heap, projection[i].v)
                       = ColumnText(heap, projection[j].v))
               => i = j

====
